---- MODULE Spec2Model ----
(***************************************************************************)
(* Minix-3 file system driver of risc_v/src/fs.rs over a block device.     *)
(*                                                                         *)
(* The device is an array of cells.  A cell is the unit of addressing of   *)
(* the model: it stands for a byte of file data, for a 32-bit zone pointer *)
(* of an indirect block, for a byte of a bitmap, for one 64-byte Inode of  *)
(* the inode table, for one 64-byte DirEntry of a directory and for the    *)
(* super block.  A cell is a tuple of naturals; the typed views below      *)
(* (SuperBlockOf, InodeOf, DirEntryOf, Ptr) read a cell the way the code   *)
(* reinterprets raw memory, a missing field reading as 0.  Sizes and       *)
(* offsets are counted in cells, the sector is SECTOR_SIZE cells and the   *)
(* block 2 * SECTOR_SIZE cells, as 512 and 1024 bytes in the source.       *)
(***************************************************************************)
EXTENDS Naturals, Sequences, FiniteSets, TLC

\* ------------------------------------------------------------------ sizes

\* Cells per device sector (512 bytes in syc_read).
SECTOR_SIZE == 2
\* Cells per file system block (1024 bytes): two sectors.
BLOCK_SIZE == 2 * SECTOR_SIZE
\* Pointers per indirect block; a pointer is one cell.
NUM_IPTRS == BLOCK_SIZE
\* Characters of a directory entry's name (60 in the source).
NAME_LEN == 2
\* The loop bound of the direct zones, `for i in 0..7`.
NUM_DIRECT == 7
MAGIC == 19802
S_IFDIR == 16384
S_IFREG == 32768
\* size_of::<Inode>() and size_of::<DirEntry>(): one cell each.
size_of_Inode == 1
size_of_DirEntry == 1

\* The budget of disk-changing operations of one behaviour.
MaxWrites == 1
\* The largest request size enumerated, besides HugeSize.
MaxSize == 5
\* The most delete and create calls of one run.
MaxDirOps == 2

Min(a, b) == IF a < b THEN a ELSE b
Max(a, b) == IF a > b THEN a ELSE b

\* ------------------------------------------------------------ raw memory

\* A cell of zero bytes.
ZeroCell == <<0>>
\* A cell of a sector the medium cannot read back: the device answers a read
\* that covers it with an error status and accepts a write over it.
BadCell == <<>>
\* Buffer::new(n): n zero cells.
Zeros(n) == [i \in 1..n |-> ZeroCell]
\* Field i (1-based) of a cell read as a number; absent bytes read as 0.
Field(c, i) == IF i <= Len(c) THEN c[i] ELSE 0
\* memcpy(dst + at, src + from, n) on flat memory: dst grows when the copy
\* runs past its end.
memcpy(dst, at, src, from, n) ==
    [i \in 1..Max(Len(dst), at + n) |->
        IF i > at /\ i <= at + n THEN src[from + (i - at)]
        ELSE IF i <= Len(dst) THEN dst[i] ELSE ZeroCell]
\* The n cells of s that start at 0-based index from.
Slice(s, from, n) == [i \in 1..n |-> s[from + i]]

\* ------------------------------------------------------------ typed views

SuperBlockOf(c) ==
    [ninodes |-> Field(c, 1), imap_blocks |-> Field(c, 2),
     zmap_blocks |-> Field(c, 3), first_data_zone |-> Field(c, 4),
     zones |-> Field(c, 5), magic |-> Field(c, 6)]
InodeOf(c) ==
    [mode |-> Field(c, 1), nlinks |-> Field(c, 2), size |-> Field(c, 3),
     zones |-> [i \in 0..9 |-> Field(c, 4 + i)]]
InodeCell(ino) ==
    <<ino.mode, ino.nlinks, ino.size>> \o [i \in 1..10 |-> ino.zones[i - 1]]
DirEntryOf(c) ==
    [inode |-> Field(c, 1), name |-> [i \in 1..NAME_LEN |-> Field(c, i + 1)]]
DirEntryCell(d) == <<d.inode>> \o d.name
\* izones.add(i).read(): pointer i (0-based) of a pointer block in memory.
Ptr(buf, i) == Field(buf[i + 1], 1)

\* ------------------------------------------------------------ block device

\* syscall_block_read: n cells at cell offset off, or an error status when
\* the request leaves the device (1) or covers an unreadable cell (2).
block_read(dk, n, off) ==
    IF off + n > Len(dk) THEN [status |-> 1, data |-> <<>>]
    ELSE IF \E i \in 1..n : dk[off + i] = BadCell THEN [status |-> 2, data |-> <<>>]
    ELSE [status |-> 0, data |-> Slice(dk, off, n)]
\* syscall_block_write: the device after writing the first n cells of src
\* at cell offset off.
block_write(dk, src, n, off) ==
    IF off + n <= Len(dk)
    THEN [status |-> 0,
          disk |-> [i \in 1..Len(dk) |->
                      IF i > off /\ i <= off + n THEN src[i - off] ELSE dk[i]]]
    ELSE [status |-> 1, disk |-> dk]

\* syc_read with a write of the zeroed temporary buffer to the device ahead
\* of the read.
syc_read_clearing(dk, buffer, size, offset) ==
    LET block_start == offset \div SECTOR_SIZE
        block_end == (offset + size + SECTOR_SIZE - 1) \div SECTOR_SIZE
        actual_buffer_size == (block_end - block_start) * SECTOR_SIZE
        w == block_write(dk, Zeros(actual_buffer_size), actual_buffer_size,
                         block_start * SECTOR_SIZE)
    IN  [status |-> w.status,
         buffer |-> memcpy(buffer, 0, Zeros(actual_buffer_size), 0, size),
         disk |-> w.disk]
\* syc_read: sector-aligned read through a temporary buffer.  The only device
\* call is syscall_block_read: the device afterwards is the device before.
syc_read(dk, buffer, size, offset) ==
    LET block_start == offset \div SECTOR_SIZE
        block_end == (offset + size + SECTOR_SIZE - 1) \div SECTOR_SIZE
        actual_buffer_size == (block_end - block_start) * SECTOR_SIZE
        r == block_read(dk, actual_buffer_size, block_start * SECTOR_SIZE)
        internal_offset == offset % SECTOR_SIZE
    IN  IF r.status # 0
        THEN [status |-> r.status, buffer |-> buffer, disk |-> dk]
        ELSE [status |-> 0,
              buffer |-> memcpy(buffer, 0, r.data, internal_offset, size),
              disk |-> dk]

\* syc_write that fills its buffer from nothing: no read of the range.
syc_write_unread(dk, buffer, size, offset) ==
    LET block_start == offset \div BLOCK_SIZE
        block_end == (offset + size + BLOCK_SIZE - 1) \div BLOCK_SIZE
        actual_buffer_size == (block_end - block_start) * BLOCK_SIZE
        actual_buffer == memcpy(Zeros(actual_buffer_size), offset % BLOCK_SIZE,
                                buffer, 0, size)
    IN  block_write(dk, actual_buffer, actual_buffer_size,
                    block_start * BLOCK_SIZE)
\* syc_write: read-modify-write of the 1024-byte blocks that cover the range.
syc_write(dk, buffer, size, offset) ==
    LET block_start == offset \div BLOCK_SIZE
        block_end == (offset + size + BLOCK_SIZE - 1) \div BLOCK_SIZE
        actual_buffer_size == (block_end - block_start) * BLOCK_SIZE
        rd == syc_read(dk, Zeros(actual_buffer_size), actual_buffer_size,
                       block_start * BLOCK_SIZE)
        internal_offset == offset % BLOCK_SIZE
        actual_buffer == memcpy(rd.buffer, internal_offset, buffer, 0, size)
    IN  block_write(dk, actual_buffer, actual_buffer_size,
                    block_start * BLOCK_SIZE)

\* ------------------------------------------------------------ get_inode

\* get_inode that reads the first block of the inode table for every number.
get_inode_first_block(dk, inode_num) ==
    LET r0 == syc_read(dk, Zeros(BLOCK_SIZE), SECTOR_SIZE, BLOCK_SIZE)
        b0 == r0.buffer
        super_block == SuperBlockOf(b0[1])
        per_block == BLOCK_SIZE \div size_of_Inode
        inode_offset ==
            (2 + super_block.imap_blocks + super_block.zmap_blocks) * BLOCK_SIZE
        r1 == syc_read(r0.disk, b0, BLOCK_SIZE, inode_offset)
        b1 == r1.buffer
        read_this_node == (inode_num - 1) % per_block
    IN  IF super_block.magic = MAGIC
        THEN [some |-> TRUE, inode |-> InodeOf(b1[read_this_node + 1]),
              disk |-> r1.disk]
        ELSE [some |-> FALSE, inode |-> InodeOf(ZeroCell), disk |-> r0.disk]
\* get_inode: [some, inode]; absent when the magic is wrong.  disk is the
\* device after its reads.
get_inode(dk, inode_num) ==
    LET r0 == syc_read(dk, Zeros(BLOCK_SIZE), SECTOR_SIZE, BLOCK_SIZE)
        b0 == r0.buffer
        super_block == SuperBlockOf(b0[1])
        per_block == BLOCK_SIZE \div size_of_Inode
        inode_offset ==
            (2 + super_block.imap_blocks + super_block.zmap_blocks) * BLOCK_SIZE
            + ((inode_num - 1) \div per_block) * BLOCK_SIZE
        r1 == syc_read(r0.disk, b0, BLOCK_SIZE, inode_offset)
        b1 == r1.buffer
        read_this_node == (inode_num - 1) % per_block
    IN  IF super_block.magic = MAGIC
        THEN [some |-> TRUE, inode |-> InodeOf(b1[read_this_node + 1]),
              disk |-> r1.disk]
        ELSE [some |-> FALSE, inode |-> InodeOf(ZeroCell), disk |-> r0.disk]

\* ------------------------------------------------------------ read

\* The transfer of a data block that a walk with the locals s issues for the
\* leaf pointer p: the count of blocks seen before it, the zone, and the bytes
\* left before it.  The locals keep the transfers of the call in the order
\* they were issued.
Transfer(s, p) == [block |-> s.blocks_seen, zone |-> p, left |-> s.bytes_left]

\* The locals of read without the clamp of bytes_left to the file size.
read_start_unclamped(dk, inode, buffer, size, offset) ==
    [blocks_seen |-> 0,
     offset_byte |-> offset % BLOCK_SIZE,
     bytes_left |-> size,
     bytes_read |-> 0,
     buffer |-> buffer,
     block_buffer |-> Zeros(BLOCK_SIZE),
     indirect_buffer |-> Zeros(BLOCK_SIZE),
     iindirect_buffer |-> Zeros(BLOCK_SIZE),
     iiindirect_buffer |-> Zeros(BLOCK_SIZE),
     transfers |-> <<>>,
     disk |-> dk,
     done |-> FALSE]
\* The locals of MinixFileSystem::read after construction.  done is set by
\* `return bytes_read` inside the walk; disk is the device, handed from one
\* syc_read of the walk to the next.
read_start(dk, inode, buffer, size, offset) ==
    [blocks_seen |-> 0,
     offset_byte |-> offset % BLOCK_SIZE,
     bytes_left |-> IF size > inode.size THEN inode.size ELSE size,
     bytes_read |-> 0,
     buffer |-> buffer,
     block_buffer |-> Zeros(BLOCK_SIZE),
     indirect_buffer |-> Zeros(BLOCK_SIZE),
     iindirect_buffer |-> Zeros(BLOCK_SIZE),
     iiindirect_buffer |-> Zeros(BLOCK_SIZE),
     transfers |-> <<>>,
     disk |-> dk,
     done |-> FALSE]

\* A zero pointer counted as a logical block.
read_hole_counted(s) == [s EXCEPT !.blocks_seen = @ + 1]
\* A zero pointer is skipped: `continue`, blocks_seen untouched.
read_hole(s) == s

\* How many bytes a visited block contributes.
read_this_many(offset_byte, bytes_left) ==
    IF BLOCK_SIZE - offset_byte > bytes_left
    THEN bytes_left
    ELSE BLOCK_SIZE - offset_byte

\* The leaf body with the copy taken from the start of the block instead of
\* from offset_byte.
read_leaf_from_block_start(dk, offset_block, p, s) ==
    IF offset_block <= s.blocks_seen
    THEN LET rd == syc_read(s.disk, s.block_buffer, BLOCK_SIZE, BLOCK_SIZE * p)
             bb == rd.buffer
             n == read_this_many(s.offset_byte, s.bytes_left)
             left == s.bytes_left - n
         IN  [s EXCEPT !.block_buffer = bb,
 !.disk = rd.disk,
                       !.transfers = Append(@, Transfer(s, p)),
                       !.buffer = memcpy(s.buffer, s.bytes_read, bb, 0, n),
                       !.offset_byte = 0,
                       !.bytes_read = @ + n,
                       !.bytes_left = left,
                       !.done = (left = 0),
                       !.blocks_seen = IF left = 0 THEN @ ELSE @ + 1]
    ELSE [s EXCEPT !.blocks_seen = @ + 1]
\* The leaf body without the test `offset_block <= blocks_seen`.
read_leaf_unguarded(dk, offset_block, p, s) ==
    LET rd == syc_read(s.disk, s.block_buffer, BLOCK_SIZE, BLOCK_SIZE * p)
        bb == rd.buffer
        n == read_this_many(s.offset_byte, s.bytes_left)
        left == s.bytes_left - n
    IN  [s EXCEPT !.block_buffer = bb,
 !.disk = rd.disk,
                  !.transfers = Append(@, Transfer(s, p)),
                  !.buffer = memcpy(s.buffer, s.bytes_read, bb, s.offset_byte, n),
                  !.offset_byte = 0,
                  !.bytes_read = @ + n,
                  !.bytes_left = left,
                  !.done = (left = 0),
                  !.blocks_seen = IF left = 0 THEN @ ELSE @ + 1]
\* The body run for a non-zero leaf pointer p, the same in all four
\* sections of read.
read_leaf(dk, offset_block, p, s) ==
    IF offset_block <= s.blocks_seen
    THEN LET rd == syc_read(s.disk, s.block_buffer, BLOCK_SIZE, BLOCK_SIZE * p)
             bb == rd.buffer
             n == read_this_many(s.offset_byte, s.bytes_left)
             left == s.bytes_left - n
         IN  [s EXCEPT !.block_buffer = bb,
 !.disk = rd.disk,
                       !.transfers = Append(@, Transfer(s, p)),
                       !.buffer = memcpy(s.buffer, s.bytes_read, bb, s.offset_byte, n),
                       !.offset_byte = 0,
                       !.bytes_read = @ + n,
                       !.bytes_left = left,
                       !.done = (left = 0),
                       !.blocks_seen = IF left = 0 THEN @ ELSE @ + 1]
    ELSE [s EXCEPT !.blocks_seen = @ + 1]

\* for i in 0..7 over inode.zones.
RECURSIVE read_direct(_, _, _, _, _)
read_direct(dk, inode, offset_block, i, s) ==
    IF i >= NUM_DIRECT \/ s.done THEN s
    ELSE read_direct(dk, inode, offset_block, i + 1,
                     IF inode.zones[i] = 0 THEN read_hole(s)
                     ELSE read_leaf(dk, offset_block, inode.zones[i], s))

\* for i in 0..NUM_IPTRS over the leaf pointers held in ptrs.
RECURSIVE read_leaves(_, _, _, _, _)
read_leaves(dk, offset_block, ptrs, i, s) ==
    IF i >= NUM_IPTRS \/ s.done THEN s
    ELSE read_leaves(dk, offset_block, ptrs, i + 1,
                     IF Ptr(ptrs, i) # 0
                     THEN read_leaf(dk, offset_block, Ptr(ptrs, i), s)
                     ELSE read_hole(s))

\* The singly indirect section.
read_single(dk, inode, offset_block, s) ==
    IF s.done \/ inode.zones[7] = 0 THEN s
    ELSE LET ib == syc_read(s.disk, s.indirect_buffer, BLOCK_SIZE,
                            BLOCK_SIZE * inode.zones[7])
         IN  read_leaves(dk, offset_block, ib.buffer, 0, [s EXCEPT !.indirect_buffer = ib.buffer,
                                  !.disk = ib.disk])

\* The loop over the pointers of a doubly indirect block held in ib.
RECURSIVE read_double_i(_, _, _, _, _)
read_double_i(dk, offset_block, ib, i, s) ==
    IF i >= NUM_IPTRS \/ s.done THEN s
    ELSE read_double_i(dk, offset_block, ib, i + 1,
            IF Ptr(ib, i) # 0
            THEN LET iib == syc_read(s.disk, s.iindirect_buffer, BLOCK_SIZE,
                                     BLOCK_SIZE * Ptr(ib, i))
                 IN  read_leaves(dk, offset_block, iib.buffer, 0,
                                 [s EXCEPT !.iindirect_buffer = iib.buffer,
                                  !.disk = iib.disk])
            ELSE s)

\* The doubly indirect section.
read_double(dk, inode, offset_block, s) ==
    IF s.done \/ inode.zones[8] = 0 THEN s
    ELSE LET ib == syc_read(s.disk, s.indirect_buffer, BLOCK_SIZE,
                            BLOCK_SIZE * inode.zones[8])
         IN  read_double_i(dk, offset_block, ib.buffer, 0, [s EXCEPT !.indirect_buffer = ib.buffer,
                                  !.disk = ib.disk])

\* The middle loop of the triply indirect section, over iib.
RECURSIVE read_triple_j(_, _, _, _, _)
read_triple_j(dk, offset_block, iib, j, s) ==
    IF j >= NUM_IPTRS \/ s.done THEN s
    ELSE read_triple_j(dk, offset_block, iib, j + 1,
            IF Ptr(iib, j) # 0
            THEN LET iiib == syc_read(s.disk, s.iiindirect_buffer, BLOCK_SIZE,
                                      BLOCK_SIZE * Ptr(iib, j))
                 IN  read_leaves(dk, offset_block, iiib.buffer, 0,
                                 [s EXCEPT !.iiindirect_buffer = iiib.buffer,
                                  !.disk = iiib.disk])
            ELSE s)

\* The outer loop of the triply indirect section, over ib.
RECURSIVE read_triple_i(_, _, _, _, _)
read_triple_i(dk, offset_block, ib, i, s) ==
    IF i >= NUM_IPTRS \/ s.done THEN s
    ELSE read_triple_i(dk, offset_block, ib, i + 1,
            IF Ptr(ib, i) # 0
            THEN LET iib == syc_read(s.disk, s.iindirect_buffer, BLOCK_SIZE,
                                     BLOCK_SIZE * Ptr(ib, i))
                 IN  read_triple_j(dk, offset_block, iib.buffer, 0,
                                   [s EXCEPT !.iindirect_buffer = iib.buffer,
                                  !.disk = iib.disk])
            ELSE s)

\* The triply indirect section.
read_triple(dk, inode, offset_block, s) ==
    IF s.done \/ inode.zones[9] = 0 THEN s
    ELSE LET ib == syc_read(s.disk, s.indirect_buffer, BLOCK_SIZE,
                            BLOCK_SIZE * inode.zones[9])
         IN  read_triple_i(dk, offset_block, ib.buffer, 0, [s EXCEPT !.indirect_buffer = ib.buffer,
                                  !.disk = ib.disk])

\* MinixFileSystem::read: the byte count returned, the caller's buffer, the
\* transfers issued and the device after the call, taken by read_return
\* from the locals at the end of the walk.
read_return(s) ==
    [ret |-> s.bytes_read, buffer |-> s.buffer, transfers |-> s.transfers,
     disk |-> s.disk]
read(dk, inode, buffer, size, offset) ==
    LET offset_block == offset \div BLOCK_SIZE
        s0 == read_start(dk, inode, buffer, size, offset)
        s1 == read_direct(dk, inode, offset_block, 0, s0)
        s2 == read_single(dk, inode, offset_block, s1)
        s3 == read_double(dk, inode, offset_block, s2)
        s4 == read_triple(dk, inode, offset_block, s3)
    IN  read_return(s4)

\* ------------------------------------------------------------ write

\* The locals of MinixFileSystem::write after construction.
write_start(dk, size, offset) ==
    [blocks_seen |-> 0,
     offset_byte |-> offset % BLOCK_SIZE,
     bytes_left |-> size,
     bytes_write |-> 0,
     disk |-> dk,
     indirect_buffer |-> Zeros(BLOCK_SIZE),
     iindirect_buffer |-> Zeros(BLOCK_SIZE),
     iiindirect_buffer |-> Zeros(BLOCK_SIZE),
     transfers |-> <<>>,
     done |-> FALSE]

\* The body run for a non-zero leaf pointer p, the same in all four
\* sections of write: the whole caller buffer goes to the start of the zone.
write_leaf(offset_block, buffer, size, p, s) ==
    IF offset_block <= s.blocks_seen
    THEN LET w == syc_write(s.disk, buffer, size, BLOCK_SIZE * p)
             n == IF BLOCK_SIZE - s.offset_byte > s.bytes_left
                  THEN s.bytes_left
                  ELSE BLOCK_SIZE - s.offset_byte
             left == s.bytes_left - n
         IN  [s EXCEPT !.disk = w.disk,
                       !.transfers = Append(@, Transfer(s, p)),
                       !.offset_byte = 0,
                       !.bytes_write = @ + n,
                       !.bytes_left = left,
                       !.done = (left = 0),
                       !.blocks_seen = IF left = 0 THEN @ ELSE @ + 1]
    ELSE [s EXCEPT !.blocks_seen = @ + 1]

\* for i in 0..7 over inode.zones.
RECURSIVE write_direct(_, _, _, _, _, _)
write_direct(inode, offset_block, buffer, size, i, s) ==
    IF i >= NUM_DIRECT \/ s.done THEN s
    ELSE write_direct(inode, offset_block, buffer, size, i + 1,
                      IF inode.zones[i] = 0 THEN s
                      ELSE write_leaf(offset_block, buffer, size, inode.zones[i], s))

\* The singly indirect loop over the pointers held in ib.
RECURSIVE write_single_i(_, _, _, _, _, _)
write_single_i(offset_block, buffer, size, ib, i, s) ==
    IF i >= NUM_IPTRS \/ s.done THEN s
    ELSE write_single_i(offset_block, buffer, size, ib, i + 1,
                        IF Ptr(ib, i) # 0
                        THEN write_leaf(offset_block, buffer, size, Ptr(ib, i), s)
                        ELSE s)

\* The singly indirect section.
write_single(inode, offset_block, buffer, size, s) ==
    IF s.done \/ inode.zones[7] = 0 THEN s
    ELSE LET ib == syc_read(s.disk, s.indirect_buffer, BLOCK_SIZE,
                            BLOCK_SIZE * inode.zones[7]).buffer
         IN  write_single_i(offset_block, buffer, size, ib, 0,
                            [s EXCEPT !.indirect_buffer = ib])

\* The innermost loop of the doubly and triply indirect sections.  Both
\* iizones and iiizones of write point into iiindirect_buffer, so the leaf
\* pointers are read from that buffer.
RECURSIVE write_iii_leaves(_, _, _, _, _)
write_iii_leaves(offset_block, buffer, size, k, s) ==
    IF k >= NUM_IPTRS \/ s.done THEN s
    ELSE write_iii_leaves(offset_block, buffer, size, k + 1,
            IF Ptr(s.iiindirect_buffer, k) # 0
            THEN write_leaf(offset_block, buffer, size,
                            Ptr(s.iiindirect_buffer, k), s)
            ELSE s)

\* The loop over the pointers of the doubly indirect block held in ib: the
\* block izones[i] is read into iindirect_buffer, the leaves are taken from
\* iiindirect_buffer.
RECURSIVE write_double_i(_, _, _, _, _, _)
write_double_i(offset_block, buffer, size, ib, i, s) ==
    IF i >= NUM_IPTRS \/ s.done THEN s
    ELSE write_double_i(offset_block, buffer, size, ib, i + 1,
            IF Ptr(ib, i) # 0
            THEN LET iib == syc_read(s.disk, s.iindirect_buffer, BLOCK_SIZE,
                                     BLOCK_SIZE * Ptr(ib, i)).buffer
                 IN  write_iii_leaves(offset_block, buffer, size, 0,
                                      [s EXCEPT !.iindirect_buffer = iib])
            ELSE s)

\* The doubly indirect section.
write_double(inode, offset_block, buffer, size, s) ==
    IF s.done \/ inode.zones[8] = 0 THEN s
    ELSE LET ib == syc_read(s.disk, s.indirect_buffer, BLOCK_SIZE,
                            BLOCK_SIZE * inode.zones[8]).buffer
         IN  write_double_i(offset_block, buffer, size, ib, 0,
                            [s EXCEPT !.indirect_buffer = ib])

\* The middle loop of the triply indirect section: iizones.add(j) reads
\* iiindirect_buffer, which the loop body itself overwrites.
RECURSIVE write_triple_j(_, _, _, _, _)
write_triple_j(offset_block, buffer, size, j, s) ==
    IF j >= NUM_IPTRS \/ s.done THEN s
    ELSE write_triple_j(offset_block, buffer, size, j + 1,
            IF Ptr(s.iiindirect_buffer, j) # 0
            THEN LET iiib == syc_read(s.disk, s.iiindirect_buffer, BLOCK_SIZE,
                                      BLOCK_SIZE * Ptr(s.iiindirect_buffer, j)).buffer
                 IN  write_iii_leaves(offset_block, buffer, size, 0,
                                      [s EXCEPT !.iiindirect_buffer = iiib])
            ELSE s)

\* The outer loop of the triply indirect section, over ib.
RECURSIVE write_triple_i(_, _, _, _, _, _)
write_triple_i(offset_block, buffer, size, ib, i, s) ==
    IF i >= NUM_IPTRS \/ s.done THEN s
    ELSE write_triple_i(offset_block, buffer, size, ib, i + 1,
            IF Ptr(ib, i) # 0
            THEN LET iib == syc_read(s.disk, s.iindirect_buffer, BLOCK_SIZE,
                                     BLOCK_SIZE * Ptr(ib, i)).buffer
                 IN  write_triple_j(offset_block, buffer, size, 0,
                                    [s EXCEPT !.iindirect_buffer = iib])
            ELSE s)

\* The triply indirect section.
write_triple(inode, offset_block, buffer, size, s) ==
    IF s.done \/ inode.zones[9] = 0 THEN s
    ELSE LET ib == syc_read(s.disk, s.indirect_buffer, BLOCK_SIZE,
                            BLOCK_SIZE * inode.zones[9]).buffer
         IN  write_triple_i(offset_block, buffer, size, ib, 0,
                            [s EXCEPT !.indirect_buffer = ib])

\* MinixFileSystem::write: the byte count returned, the device afterwards
\* and the caller's inode, whose size is set only when the walk runs to its
\* end.
write(dk, inode, buffer, size, offset) ==
    LET offset_block == offset \div BLOCK_SIZE
        s0 == write_start(dk, size, offset)
        s1 == write_direct(inode, offset_block, buffer, size, 0, s0)
        s2 == write_single(inode, offset_block, buffer, size, s1)
        s3 == write_double(inode, offset_block, buffer, size, s2)
        s4 == write_triple(inode, offset_block, buffer, size, s3)
    IN  [ret |-> s4.bytes_write,
         disk |-> s4.disk,
         transfers |-> s4.transfers,
         inode |-> IF s4.done THEN inode ELSE [inode EXCEPT !.size = s4.bytes_write]]

\* ------------------------------------------------------------ disk images

\* A block from its leading cells, zero filled.
PadBlock(cells) == cells \o Zeros(BLOCK_SIZE - Len(cells))
\* A file data block: every cell of every block holds a different value.
DataBlock(b) == [i \in 1..BLOCK_SIZE |-> <<1000 + 10 * b + i>>]
\* An indirect block holding the given zone pointers.
PtrBlock(ptrs) == PadBlock([i \in 1..Len(ptrs) |-> <<ptrs[i]>>])
\* A DirEntry cell: inode number and NUL padded name (character codes).
MkDirEntry(ino, chars) ==
    <<ino>> \o [i \in 1..NAME_LEN |-> IF i <= Len(chars) THEN chars[i] ELSE 0]
\* An Inode cell.
MkInode(mode, size, zs) ==
    <<mode, 1, size>> \o [i \in 1..10 |-> IF i <= Len(zs) THEN zs[i] ELSE 0]

\* The parameters p of an image: the sizes root, hello and big recorded in
\* inodes 1, 2 and 3, link (the fourth root entry is a second name "e" of
\* inode 2 instead of the directory "d") and the magic of the super block.
\* Inode n of the image: 1 the root directory, 2 a one-zone file, 3 a file
\* with direct, singly, doubly and triply indirect zones, 4 a directory,
\* 5 a file of that directory, 6 a file whose zones[1] is a hole.
ImageInode(p, n) ==
    CASE n = 1 -> MkInode(S_IFDIR + 493, p.root, <<6, 7>>)
      [] n = 2 -> MkInode(S_IFREG + 420, p.hello, <<9>>)
      [] n = 3 -> MkInode(S_IFREG + 420, p.big,
                          <<10, 11, 12, 13, 14, 15, 16, 17, 21, 25>>)
      [] n = 4 -> MkInode(S_IFDIR + 493, 3, <<8>>)
      [] n = 5 -> MkInode(S_IFREG + 420, BLOCK_SIZE, <<31>>)
      [] n = 6 -> MkInode(S_IFREG + 420, 2 * BLOCK_SIZE, <<29, 0, 30>>)
      [] OTHER -> ZeroCell

\* Block b of the image: boot, super block, imap, zmap, two blocks of
\* inodes, then the data zones from block 6 on.  Bit i of the imap stands
\* for inode i + 1: the six inodes in use have bits 0 to 5.
ImageBlock(p, b) ==
    CASE b = 1 -> PadBlock(<< <<8, 1, 1, 6, 34, p.magic>> >>)
      [] b = 2 -> PadBlock(<< <<63>> >>)
      [] b = 3 -> PadBlock(<< <<255>>, <<255>>, <<255>>, <<15>> >>)
      [] b \in {4, 5} ->
            [i \in 1..BLOCK_SIZE |-> ImageInode(p, (b - 4) * BLOCK_SIZE + i)]
      [] b = 6 -> PadBlock(<< MkDirEntry(1, <<46>>), MkDirEntry(1, <<46, 46>>),
                              MkDirEntry(2, <<97>>),
                              IF p.link THEN MkDirEntry(2, <<101>>)
                              ELSE MkDirEntry(4, <<100>>) >>)
      [] b = 7 -> PadBlock(<< MkDirEntry(3, <<98>>), MkDirEntry(6, <<104>>) >>)
      [] b = 8 -> PadBlock(<< MkDirEntry(4, <<46>>), MkDirEntry(1, <<46, 46>>),
                              MkDirEntry(5, <<99>>) >>)
      [] b = 17 -> PtrBlock(<<18, 0, 19, 20>>)
      [] b = 21 -> PtrBlock(<<22>>)
      [] b = 22 -> PtrBlock(<<0, 23, 24>>)
      [] b = 25 -> PtrBlock(<<26>>)
      [] b = 26 -> PtrBlock(<<0, 27>>)
      [] b = 27 -> PtrBlock(<<28>>)
      [] b \in (9..16) \cup {18, 19, 20, 23, 24, 28, 29, 30, 31} -> DataBlock(b)
      [] OTHER -> Zeros(BLOCK_SIZE)

\* The device image of parameters p: 34 blocks.
Image(p) ==
    [a \in 1..(34 * BLOCK_SIZE) |->
        ImageBlock(p, (a - 1) \div BLOCK_SIZE)[((a - 1) % BLOCK_SIZE) + 1]]

\* The sizes recorded in the inodes of the images: a root directory of one
\* block or of more, files that fill their zones or end inside them.
ImageParams ==
    [root : {BLOCK_SIZE, BLOCK_SIZE + 2},
     hello : {2, BLOCK_SIZE},
     big : {7 * BLOCK_SIZE + 2, 13 * BLOCK_SIZE},
     link : {FALSE}, magic : {MAGIC}]

\* ------------------------------------------------------------ state

VARIABLES
    disk,             \* the block device: a sequence of cells
    MFS_INODE_CACHE,  \* the device's slot of the path cache
    last,             \* the operation that ran last, its arguments and result
    lastw,            \* the last write call, for a read that follows it
    nwrites,          \* disk-changing operations so far
    procs,            \* the process table: the callers of process_read/write
    workers           \* the kernel workers, each with its position in its code

vars == <<disk, MFS_INODE_CACHE, last, lastw, nwrites, procs, workers>>
\* The variables of the scheduler, which a call made directly leaves alone.
pvars == <<procs, workers>>
\* No process and no worker.
NoProcs == <<>>
NoWorkers == <<>>

\* Option<BTreeMap<String, Inode>>: None, or a map from paths to inodes.
EmptyMap == [p \in {} |-> InodeOf(ZeroCell)]
None == [some |-> FALSE, map |-> EmptyMap]
Some(m) == [some |-> TRUE, map |-> m]

\* No operation recorded.  seq numbers the operations of workers that run
\* interleaved, in the order they started.
NoOp ==
    [op |-> "none", num |-> 0, ino |-> InodeOf(ZeroCell), size |-> 0, offset |-> 0,
     ret |-> 0, buf |-> <<>>, path |-> <<>>, name |-> <<>>, err |-> "none",
     seq |-> 0]
NoWrite ==
    [some |-> FALSE, num |-> 0, ino |-> InodeOf(ZeroCell), size |-> 0,
     offset |-> 0, data |-> <<>>, after |-> InodeOf(ZeroCell)]

InitRead ==
    /\ disk \in {Image(p) : p \in ImageParams}
    /\ MFS_INODE_CACHE = None
    /\ last = NoOp
    /\ lastw = NoWrite
    /\ nwrites = 0
    /\ procs = NoProcs
    /\ workers = NoWorkers

\* ------------------------------------------------------------ read, alone

\* A request size larger than every file of the images.
HugeSize == 14 * BLOCK_SIZE
\* The inode numbers in use in the images.
InodeNums == 1..6

\* The record of a read(dev, inode, buf, size, offset) into a new Buffer of
\* size cells.
ReadRecord(dk, num, inode, size, offset) ==
    LET r == read(dk, inode, Zeros(size), size, offset)
    IN  [NoOp EXCEPT !.op = "read", !.num = num, !.ino = inode, !.size = size,
                     !.offset = offset, !.ret = r.ret, !.buf = r.buffer]

\* read of any window of any inode of the device, as the first call on it.
ReadAny ==
    \E n \in InodeNums, size \in (0..MaxSize) \cup {HugeSize},
       offset \in 0..(13 * BLOCK_SIZE + 1) :
        /\ last = NoOp
        /\ get_inode(disk, n).some
        /\ last' = ReadRecord(disk, n, get_inode(disk, n).inode, size, offset)
        /\ UNCHANGED <<disk, MFS_INODE_CACHE, lastw, nwrites>>
        /\ UNCHANGED pvars

NextRead == ReadAny

SpecRead == InitRead /\ [][NextRead]_vars

\* ------------------------------------------------------------ the logical stream

\* Whether block b lies on the device.
OnDevice(dk, b) == (b + 1) * BLOCK_SIZE <= Len(dk)
\* The non-zero elements of a sequence of pointers, in order.
NonZero(ptrs) == SelectSeq(ptrs, LAMBDA x : x # 0)
\* The non-zero pointers stored in block b of the device.
PointersIn(dk, b) ==
    IF b # 0 /\ OnDevice(dk, b)
    THEN NonZero([i \in 1..NUM_IPTRS |-> Field(dk[b * BLOCK_SIZE + i], 1)])
    ELSE <<>>
\* The leaves below each of the pointer blocks bs, k levels of pointer
\* blocks above the data (k = 0: bs are the leaves).
RECURSIVE LeavesBelow(_, _, _)
LeavesBelow(dk, bs, k) ==
    IF k = 0 THEN bs
    ELSE IF bs = <<>> THEN <<>>
    ELSE LeavesBelow(dk, PointersIn(dk, Head(bs)), k - 1)
         \o LeavesBelow(dk, Tail(bs), k)
\* The data zones of an inode in logical order: direct zones, then the
\* leaves of zones[7], zones[8] and zones[9], zero pointers left out.
LeafZones(dk, inode) ==
    NonZero([i \in 1..NUM_DIRECT |-> inode.zones[i - 1]])
    \o LeavesBelow(dk, NonZero(<<inode.zones[7]>>), 1)
    \o LeavesBelow(dk, NonZero(<<inode.zones[8]>>), 2)
    \o LeavesBelow(dk, NonZero(<<inode.zones[9]>>), 3)
\* Byte k (0-based) of the logical stream of the data zones zs.
StreamByte(dk, zs, k) ==
    dk[zs[(k \div BLOCK_SIZE) + 1] * BLOCK_SIZE + (k % BLOCK_SIZE) + 1]
\* Whether the first n bytes of the stream of zs are stored on the device.
StreamHolds(dk, zs, n) ==
    /\ n <= Len(zs) * BLOCK_SIZE
    /\ \A j \in 1..Len(zs) : (j - 1) * BLOCK_SIZE < n => OnDevice(dk, zs[j])

\* ------------------------------------------------------------ claims on read

\* C1: a read of a window that lies inside the file, on an inode whose
\* non-zero zones hold the window, returns size and fills buf[0..size) with
\* bytes [offset, offset+size) of the concatenation of those zones.
C1_ReadWindow ==
    LET zs == LeafZones(disk, last.ino)
    IN  (/\ last.op = "read"
         /\ last.offset + last.size <= last.ino.size
         /\ StreamHolds(disk, zs, last.offset + last.size))
        => /\ last.ret = last.size
           /\ \A i \in 1..last.size :
                last.buf[i] = StreamByte(disk, zs, last.offset + i - 1)

\* C1 witness: such a read that starts inside direct zone 6 and ends in the
\* first singly indirect leaf.
C1_Witness ==
    /\ last.op = "read"
    /\ last.offset + last.size <= last.ino.size
    /\ StreamHolds(disk, LeafZones(disk, last.ino), last.offset + last.size)
    /\ last.ino.zones[7] # 0
    /\ last.offset % BLOCK_SIZE # 0
    /\ last.offset < NUM_DIRECT * BLOCK_SIZE
    /\ last.offset + last.size > NUM_DIRECT * BLOCK_SIZE
    /\ last.ret = last.size

\* C2: a read at offset 0 returns min(size, inode.size) when the zones hold
\* that many bytes.
C2_ReadFromStart ==
    (/\ last.op = "read"
     /\ last.offset = 0
     /\ StreamHolds(disk, LeafZones(disk, last.ino), Min(last.size, last.ino.size)))
    => last.ret = Min(last.size, last.ino.size)

\* C2 witness: a buffer larger than a file that reaches into its indirect
\* zones yields the file size.
C2_Witness ==
    /\ last.op = "read"
    /\ last.offset = 0
    /\ last.size > last.ino.size
    /\ last.ino.size > NUM_DIRECT * BLOCK_SIZE
    /\ StreamHolds(disk, LeafZones(disk, last.ino), last.ino.size)
    /\ last.ret = last.ino.size

\* C3: a read at an offset at or past the file size returns 0 and copies
\* nothing.
C3_ReadPastEnd ==
    (last.op = "read" /\ last.offset >= last.ino.size)
    => (last.ret = 0 /\ last.buf = Zeros(last.size))

\* C4: a read that starts inside the file returns at most
\* min(size, inode.size - offset) bytes.
C4_ReadClampedAtEnd ==
    (last.op = "read" /\ last.offset < last.ino.size)
    => last.ret <= Min(last.size, last.ino.size - last.offset)

\* C5: zero pointers take no logical block index: the read starts in the
\* (k+1)-th non-zero leaf, k = offset / BLOCK_SIZE, and returns 0 when the
\* inode has no such leaf.
C5_HolesSkipped ==
    LET zs == LeafZones(disk, last.ino)
        k == last.offset \div BLOCK_SIZE
        d == last.offset % BLOCK_SIZE
        n == Min(BLOCK_SIZE - d, Min(last.size, last.ino.size))
    IN  last.op = "read"
        => IF k < Len(zs)
           THEN OnDevice(disk, zs[k + 1])
                => \A i \in 1..n : last.buf[i] = disk[zs[k + 1] * BLOCK_SIZE + d + i]
           ELSE last.ret = 0

\* C5 witness: zones[0] and zones[2] populated, zones[1] zero, and the read
\* at offset BLOCK_SIZE returned the start of zones[2].
C5_Witness ==
    /\ last.op = "read"
    /\ last.ino.zones[0] # 0 /\ last.ino.zones[1] = 0 /\ last.ino.zones[2] # 0
    /\ last.offset = BLOCK_SIZE
    /\ last.ret = BLOCK_SIZE
    /\ \A i \in 1..BLOCK_SIZE :
         last.buf[i] = disk[last.ino.zones[2] * BLOCK_SIZE + i]

\* ------------------------------------------------------------ path cache

\* x & !m on naturals, bit by bit.
RECURSIVE AndNot(_, _)
AndNot(x, m) ==
    IF x = 0 THEN 0
    ELSE 2 * AndNot(x \div 2, m \div 2) + (IF m % 2 = 1 THEN 0 ELSE x % 2)
\* The capacity of the scratch buffer that cache_at, delete_inode_and_direntry
\* and create_new_file request for a directory of the given size:
\* (size + BLOCK_SIZE - 1) & !BLOCK_SIZE.
dir_buffer_capacity(size) == AndNot(size + BLOCK_SIZE - 1, BLOCK_SIZE)

\* d.name up to the first NUL or NAME_LEN characters, from index i on.
RECURSIVE NameChars(_, _)
NameChars(name, i) ==
    IF i > NAME_LEN \/ name[i] = 0 THEN <<>>
    ELSE <<name[i]>> \o NameChars(name, i + 1)

\* new_cwd of cache_at: cwd, a '/' (47) unless the directory is the root,
\* then the name.
NewCwd(cwd, inode_num, name) ==
    cwd \o (IF inode_num # 1 THEN <<47>> ELSE <<>>) \o NameChars(name, 1)

\* btm.insert(key, value).
Insert(btm, key, value) ==
    [p \in DOMAIN btm \cup {key} |-> IF p = key THEN value ELSE btm[p]]

\* cache_at: the map after the descent of directory inode_num, and the
\* device after its reads.  The directory is read with one read of
\* BLOCK_SIZE at offset 0 into a buffer of capacity
\* (size + BLOCK_SIZE - 1) & !BLOCK_SIZE; a copy longer than the capacity
\* lands behind the buffer, where dirents.add(i) reads it back.
\* cache_at_entries is the loop `for i in 2..num_dirents` from index i on,
\* cache_at_rest the rest of it behind an entry that left acc.
RECURSIVE cache_at(_, _, _, _)
RECURSIVE cache_at_entries(_, _, _, _, _, _, _)
cache_at_rest(acc, cwd, inode_num, buf, num_dirents, i) ==
    cache_at_entries(acc.btm, cwd, inode_num, acc.disk, buf, num_dirents, i)
cache_at_entries(btm, cwd, inode_num, dk, buf, num_dirents, i) ==
    IF i >= num_dirents THEN [btm |-> btm, disk |-> dk]
    ELSE LET d == DirEntryOf(buf[i + 1])
             new_cwd == NewCwd(cwd, inode_num, d.name)
             \* g is get_inode(bdev, d.inode), d_ino its inode.
             next(g, d_ino) ==
                 IF (d_ino.mode \div S_IFDIR) % 2 = 1
                 THEN cache_at(btm, new_cwd, d.inode, g.disk)
                 ELSE [btm |-> Insert(btm, new_cwd, d_ino), disk |-> g.disk]
             entry(g) == next(g, g.inode)
         IN  cache_at_rest(IF d.inode = 0 THEN [btm |-> btm, disk |-> dk]
                           ELSE entry(get_inode(dk, d.inode)),
                           cwd, inode_num, buf, num_dirents, i + 1)
cache_at(btm, cwd, inode_num, dk) ==
    LET \* r is the result of read on the directory.
        scan(r) ==
            cache_at_entries(btm, cwd, inode_num, r.disk, r.buffer,
                             r.ret \div size_of_DirEntry, 2)
        \* g is get_inode(bdev, inode_num), ino its inode.
        dir(g, ino) ==
            scan(read(g.disk, ino, Zeros(dir_buffer_capacity(ino.size)),
                      BLOCK_SIZE, 0))
        descend(g) == dir(g, g.inode)
    IN  descend(get_inode(dk, inode_num))

\* init with a rebuild on every call.
init_always(cache, dk) == Some(cache_at(EmptyMap, <<47>>, 1, dk).btm)
\* init: the cache slot afterwards; built only when the slot is None.
init(cache, dk) ==
    IF ~cache.some THEN Some(cache_at(EmptyMap, <<47>>, 1, dk).btm) ELSE cache

\* refresh: the cache slot afterwards.
refresh(dk) == Some(cache_at(EmptyMap, <<47>>, 1, dk).btm)

\* The device after init and after refresh: that after the reads of cache_at,
\* when cache_at is run.
init_device(cache, dk) ==
    IF ~cache.some THEN cache_at(EmptyMap, <<47>>, 1, dk).disk ELSE dk
refresh_device(dk) == cache_at(EmptyMap, <<47>>, 1, dk).disk
\* show_fs_info: one read of the super block, printed when its magic is
\* MAGIC; the device afterwards.
show_fs_info(dk) ==
    LET rd == syc_read(dk, Zeros(BLOCK_SIZE), SECTOR_SIZE, BLOCK_SIZE)
    IN  [shown |-> SuperBlockOf(rd.buffer[1]).magic = MAGIC, disk |-> rd.disk]

\* open with the taken cache never put back.
open_not_replaced(cache, path) ==
    [cache |-> None,
     err |-> IF cache.some /\ path \in DOMAIN cache.map
             THEN "Ok" ELSE "FileNotFound",
     inode |-> IF cache.some /\ path \in DOMAIN cache.map
               THEN cache.map[path] ELSE InodeOf(ZeroCell)]
\* open: take() the slot, look the path up, replace() the slot.  The slot
\* afterwards, the result's variant and the inode of Ok.
open(cache, path) ==
    IF cache.some
    THEN IF path \in DOMAIN cache.map
         THEN [cache |-> cache, err |-> "Ok", inode |-> cache.map[path]]
         ELSE [cache |-> cache, err |-> "FileNotFound", inode |-> InodeOf(ZeroCell)]
    ELSE [cache |-> None, err |-> "FileNotFound", inode |-> InodeOf(ZeroCell)]

\* ------------------------------------------------------------ operations

\* The images the operations start from: a root directory of one block and
\* one that continues into a second block.
MainParams ==
    [root : {BLOCK_SIZE, BLOCK_SIZE + 2}, hello : {BLOCK_SIZE}, big : {13 * BLOCK_SIZE},
     link : {FALSE}, magic : {MAGIC}]

Init ==
    /\ disk \in {Image(p) : p \in MainParams}
    /\ MFS_INODE_CACHE = None
    /\ last = NoOp
    /\ lastw = NoWrite
    /\ nwrites = 0
    /\ procs = NoProcs
    /\ workers = NoWorkers

\* The files read and written, and the windows <<size, offset>> requested:
\* at the start of a zone, inside a zone, across two zones, longer than a
\* zone, in the doubly indirect range of the big file, and of no bytes.
FileNums == {2, 3}
Windows ==
    {<<1, 0>>, <<2, 1>>, <<2, BLOCK_SIZE - 1>>, <<BLOCK_SIZE + 1, 0>>,
     <<BLOCK_SIZE + 1, 6 * BLOCK_SIZE>>, <<1, 10 * BLOCK_SIZE>>, <<0, 0>>}
\* The caller's data of a write: cells unlike any cell of the images.
Data(size) == [i \in 1..size |-> <<200 + i>>]
\* The write calls <<inode number, size, offset, data>>: the windows of the
\* files, and zeroed directory entries over the start of the root directory.
WriteCalls ==
    {<<n, w[1], w[2], Data(w[1])>> : n \in FileNums, w \in Windows}
    \cup {<<1, 3, 0, Zeros(3)>>}

\* The paths opened: cached files, a directory, a path of the second
\* directory block, and near misses of a cached path.
Paths ==
    {<<47, 97>>, <<47, 100, 47, 99>>, <<47, 98>>, <<47, 100>>,
     <<47, 97, 47>>, <<97>>, <<47>>, <<47, 47, 97>>}

\* write_proc: get_inode(..).unwrap(), then write on the copy of the inode.
Write ==
    \E c \in WriteCalls :
        LET g == get_inode(disk, c[1])
            w == write(disk, g.inode, c[4], c[2], c[3])
        IN  /\ nwrites < MaxWrites
            /\ g.some
            /\ disk' = w.disk
            /\ last' = [NoOp EXCEPT !.op = "write", !.num = c[1], !.ino = g.inode,
                                    !.size = c[2], !.offset = c[3],
                                    !.ret = w.ret, !.buf = c[4]]
            /\ lastw' = [some |-> TRUE, num |-> c[1], ino |-> g.inode,
                         size |-> c[2], offset |-> c[3], data |-> c[4],
                         after |-> w.inode]
            /\ nwrites' = nwrites + 1
            /\ UNCHANGED MFS_INODE_CACHE
            /\ UNCHANGED pvars

\* read_proc: get_inode(..).unwrap(), then read into the caller's buffer.
Read ==
    \E n \in FileNums, w \in Windows :
        /\ get_inode(disk, n).some
        /\ last' = ReadRecord(disk, n, get_inode(disk, n).inode, w[1], w[2])
        /\ disk' = read(get_inode(disk, n).disk, get_inode(disk, n).inode,
                        Zeros(w[1]), w[1], w[2]).disk
        /\ UNCHANGED <<MFS_INODE_CACHE, lastw, nwrites>>
        /\ UNCHANGED pvars

Open ==
    \E path \in Paths :
        LET o == open(MFS_INODE_CACHE, path)
        IN  /\ MFS_INODE_CACHE' = o.cache
            /\ last' = [NoOp EXCEPT !.op = "open", !.path = path,
                                    !.err = o.err, !.ino = o.inode]
            /\ UNCHANGED <<disk, lastw, nwrites>>
            /\ UNCHANGED pvars

\* init; the unwrap of cache_at needs a super block with the magic.
InitFs ==
    /\ get_inode(disk, 1).some
    /\ MFS_INODE_CACHE' = init(MFS_INODE_CACHE, disk)
    /\ last' = [NoOp EXCEPT !.op = "init",
                            !.err = IF MFS_INODE_CACHE.some THEN "kept" ELSE "built"]
    /\ disk' = init_device(MFS_INODE_CACHE, disk)
    /\ UNCHANGED <<lastw, nwrites>>
    /\ UNCHANGED pvars

\* refresh.
Refresh ==
    /\ get_inode(disk, 1).some
    /\ MFS_INODE_CACHE' = refresh(disk)
    /\ last' = [NoOp EXCEPT !.op = "refresh"]
    /\ disk' = refresh_device(disk)
    /\ UNCHANGED <<lastw, nwrites>>
    /\ UNCHANGED pvars

Next == Write \/ Read \/ Open \/ InitFs \/ Refresh

Spec == Init /\ [][Next]_vars

\* ------------------------------------------------------------ claims on write

\* C6: a write followed by a read of the same window of the same inode,
\* the window inside the file and inside its allocated zones, reads back
\* the data written.
C6_WriteReadRoundTrip ==
    (/\ last.op = "read"
     /\ lastw.some
     /\ last.num = lastw.num
     /\ last.size = lastw.size
     /\ last.offset = lastw.offset
     /\ last.ino = lastw.after
     /\ last.offset + last.size <= last.ino.size
     /\ StreamHolds(disk, LeafZones(disk, last.ino), last.offset + last.size))
    => (last.ret = last.size /\ last.buf = lastw.data)

\* Block b of the device.
BlockAt(dk, b) == Slice(dk, b * BLOCK_SIZE, BLOCK_SIZE)
\* The elements of a sequence.
Range(s) == {s[i] : i \in DOMAIN s}
\* The blocks that hold zone pointers of an inode: its indirect blocks of
\* every level.
PointerBlocks(dk, inode) ==
    Range(NonZero(<<inode.zones[7]>>))
    \cup Range(NonZero(<<inode.zones[8]>>))
    \cup Range(LeavesBelow(dk, NonZero(<<inode.zones[8]>>), 1))
    \cup Range(NonZero(<<inode.zones[9]>>))
    \cup Range(LeavesBelow(dk, NonZero(<<inode.zones[9]>>), 1))
    \cup Range(LeavesBelow(dk, NonZero(<<inode.zones[9]>>), 2))
\* The blocks of the bitmaps and of the inode table.
TableBlocks(dk) == 2..(SuperBlockOf(dk[BLOCK_SIZE + 1]).first_data_zone - 1)

\* C7: a write changes no block of the bitmaps, of the inode table or of
\* the inode's zone pointers, returns at most size, and returns 0 without
\* changing the device when the inode has no leaf zone at logical index
\* offset / BLOCK_SIZE or later.
C7_WriteOnlyAllocatedZones ==
    [][last'.op = "write" =>
        /\ \A b \in TableBlocks(disk) \cup PointerBlocks(disk, last'.ino) :
             OnDevice(disk, b) => BlockAt(disk', b) = BlockAt(disk, b)
        /\ last'.ret <= last'.size
        /\ Len(LeafZones(disk, last'.ino)) <= last'.offset \div BLOCK_SIZE
             => (last'.ret = 0 /\ disk' = disk)]_vars

\* ------------------------------------------------------------ claims on the cache

\* C8: open returns Ok with the cached inode exactly when the path is a key
\* of the cache, FileNotFound in every other case, an absent cache included,
\* and leaves the cache as it was.
C8_OpenLooksUpVerbatim ==
    [][last'.op = "open" =>
        /\ MFS_INODE_CACHE' = MFS_INODE_CACHE
        /\ IF MFS_INODE_CACHE.some /\ last'.path \in DOMAIN MFS_INODE_CACHE.map
           THEN last'.err = "Ok" /\ last'.ino = MFS_INODE_CACHE.map[last'.path]
           ELSE last'.err = "FileNotFound"]_vars

\* C8 witness: the cache is present, the file of the subdirectory was opened
\* and its inode returned, while the cache holds no key for the directory.
C8_Witness ==
    /\ last.op = "open"
    /\ last.err = "Ok"
    /\ last.path = <<47, 100, 47, 99>>
    /\ MFS_INODE_CACHE.some
    /\ last.ino = get_inode(disk, 5).inode
    /\ <<47, 100>> \notin DOMAIN MFS_INODE_CACHE.map

\* Whether a mode has the directory bit.
IsDir(mode) == (mode \div S_IFDIR) % 2 = 1
\* The pairs <<path, inode>> of the files reachable from directory inode_num
\* of path cwd, by all the entries of the directory from the third on.
RECURSIVE ReachableFiles(_, _, _)
ReachableFiles(dk, cwd, inode_num) ==
    LET dir == get_inode(dk, inode_num).inode
        zs == LeafZones(dk, dir)
        n == Min(dir.size, Len(zs) * BLOCK_SIZE)
        entry(i) == DirEntryOf(StreamByte(dk, zs, i))
        child(i) == get_inode(dk, entry(i).inode).inode
        path(i) == NewCwd(cwd, inode_num, entry(i).name)
    IN  UNION {IF entry(i).inode = 0 THEN {}
               ELSE IF IsDir(child(i).mode)
               THEN ReachableFiles(dk, path(i), entry(i).inode)
               ELSE {<<path(i), child(i)>>} : i \in 2..(n - 1)}

\* C9: after refresh, or an init that built the cache, the keys of the cache
\* are the paths of all files reachable from the root directory, and each
\* value is the inode of the file.
C9_CacheIsReachableFiles ==
    (last.op = "refresh" \/ (last.op = "init" /\ last.err = "built"))
    => /\ MFS_INODE_CACHE.some
       /\ DOMAIN MFS_INODE_CACHE.map = {f[1] : f \in ReachableFiles(disk, <<47>>, 1)}
       /\ \A f \in ReachableFiles(disk, <<47>>, 1) : MFS_INODE_CACHE.map[f[1]] = f[2]

\* C10: init on a present cache leaves the cache as it is; init on an absent
\* cache and every refresh set it to the descent of the current disk.
C10_InitOnlyWhenAbsent ==
    [][/\ (last'.op = "init" /\ MFS_INODE_CACHE.some)
            => MFS_INODE_CACHE' = MFS_INODE_CACHE
       /\ (last'.op = "init" /\ ~MFS_INODE_CACHE.some)
            => MFS_INODE_CACHE' = Some(cache_at(EmptyMap, <<47>>, 1, disk).btm)
       /\ last'.op = "refresh"
            => MFS_INODE_CACHE' = Some(cache_at(EmptyMap, <<47>>, 1, disk).btm)]_vars

\* C10 witness: init ran on a present cache that differs from the descent of
\* the disk as it is now, and the cache still holds the old entries.
C10_Witness ==
    /\ last.op = "init"
    /\ last.err = "kept"
    /\ MFS_INODE_CACHE.some
    /\ MFS_INODE_CACHE.map # cache_at(EmptyMap, <<47>>, 1, disk).btm
    /\ <<47, 97>> \in DOMAIN MFS_INODE_CACHE.map

\* ------------------------------------------------------------ inode bitmap

\* 1 << j.
RECURSIVE Shl1(_)
Shl1(j) == IF j = 0 THEN 1 ELSE 2 * Shl1(j - 1)
\* byte & (1 << j), as 0 or 1.
Bit(byte, j) == (byte \div Shl1(j)) % 2
\* byte | (1 << j) and byte & !(1 << j).
SetBit(byte, j) == IF Bit(byte, j) = 1 THEN byte ELSE byte + Shl1(j)
ClearBit(byte, j) == IF Bit(byte, j) = 1 THEN byte - Shl1(j) ELSE byte

NoInodeNum == [some |-> FALSE, value |-> 0]

\* The loop `for j in 0..8` of find_free_inode over the bits of one byte.
RECURSIVE find_free_bit(_, _, _)
find_free_bit(byte, i, j) ==
    IF j >= 8 THEN NoInodeNum
    ELSE IF Bit(byte, j) = 0 THEN [some |-> TRUE, value |-> i * BLOCK_SIZE + j]
    ELSE find_free_bit(byte, i, j + 1)
\* The loop `for i in 0..buffer.len()` over the bytes of one imap block.
RECURSIVE find_free_byte(_, _)
find_free_byte(buffer, i) ==
    IF i >= Len(buffer) THEN NoInodeNum
    ELSE LET r == find_free_bit(Field(buffer[i + 1], 1), i, 0)
         IN  IF r.some THEN r ELSE find_free_byte(buffer, i + 1)
\* The loop `for i in 0..imap_blocks` over the imap blocks.
RECURSIVE find_free_block(_, _, _, _)
find_free_block(dk, buffer, imap_blocks, i) ==
    IF i >= imap_blocks
    THEN [some |-> FALSE, value |-> NoInodeNum.value, disk |-> dk]
    ELSE LET rd == syc_read(dk, buffer, BLOCK_SIZE, (2 + i) * BLOCK_SIZE)
             r == find_free_byte(rd.buffer, 0)
         IN  IF r.some THEN [some |-> TRUE, value |-> r.value, disk |-> rd.disk]
             ELSE find_free_block(rd.disk, rd.buffer, imap_blocks, i + 1)
\* find_free_inode: Option<u32>, and the device after its reads.
find_free_inode(dk) ==
    LET rd == syc_read(dk, Zeros(BLOCK_SIZE), BLOCK_SIZE, BLOCK_SIZE)
    IN  find_free_block(rd.disk, rd.buffer, SuperBlockOf(rd.buffer[1]).imap_blocks, 0)

\* get_imap_offset: the imap byte read and written for an inode number.
get_imap_offset(inode_num) == 2 * BLOCK_SIZE + (inode_num - 1) \div 8
\* get_inode_offset: 0x2048 + (inode_num - 2) * 0x40, that is 8 blocks and
\* 72 bytes, the 72 bytes counted as one inode cell.
get_inode_offset(inode_num) == 8 * BLOCK_SIZE + 1 + (inode_num - 2) * size_of_Inode

\* ------------------------------------------------------------ delete and create

\* Whether a path ends with '/'.
ends_with_slash(cwd) == Len(cwd) > 0 /\ cwd[Len(cwd)] = 47
\* btm.remove(key).
Remove(btm, key) == [p \in DOMAIN btm \ {key} |-> btm[p]]
\* The index of the first entry from i on whose inode field is inode_num, or
\* num_dirents when the loop `for i in 2..num_dirents` ends without a match.
RECURSIVE find_dirent(_, _, _, _)
find_dirent(buf, num_dirents, inode_num, i) ==
    IF i >= num_dirents THEN num_dirents
    ELSE IF DirEntryOf(buf[i + 1]).inode = inode_num THEN i
    ELSE find_dirent(buf, num_dirents, inode_num, i + 1)

\* Step 4 of delete_inode_and_direntry and of create_new_file: the device
\* after the imap byte of inode_num is read, bit inode_num % 8 of it is
\* cleared or set, and the 512-byte buffer is written back.
update_imap(dk, inode_num, set) ==
    LET imap_offset == get_imap_offset(inode_num)
        nth == inode_num % 8
        rd == syc_read(dk, Zeros(SECTOR_SIZE), SECTOR_SIZE, imap_offset).buffer
        byte == Field(rd[1], 1)
        imap_buffer == [rd EXCEPT ![1] = <<IF set THEN SetBit(byte, nth)
                                           ELSE ClearBit(byte, nth)>>]
    IN  syc_write(dk, imap_buffer, SECTOR_SIZE, imap_offset).disk

\* delete_dirent without the write of the directory buffer.
delete_dirent_unwritten(btm, cwd, inode_num, dk, ino, buf, sz, i) ==
    [btm |-> btm, disk |-> update_imap(dk, inode_num, FALSE)]
\* delete_inode_and_direntry from the match of the scan on (steps 2 to 4):
\* buf and sz are the root directory as read, i the index find_dirent gave.
\* A match has its inode field zeroed and the buffer written back over the
\* directory, and the key cwd + "/" + name leaves the map; the imap bit is
\* cleared with a match and without one.
delete_dirent(btm, cwd, inode_num, dk, ino, buf, sz, i) ==
    IF i < sz \div size_of_DirEntry
    THEN [btm |-> Remove(btm, cwd \o (IF ~ends_with_slash(cwd) THEN <<47>> ELSE <<>>)
                                  \o NameChars(DirEntryOf(buf[i + 1]).name, 1)),
          disk |-> update_imap(
                      write(dk, ino,
                            [buf EXCEPT ![i + 1] =
                                DirEntryCell([DirEntryOf(@) EXCEPT !.inode = 0])],
                            sz, 0).disk,
                      inode_num, FALSE)]
    ELSE [btm |-> btm, disk |-> update_imap(dk, inode_num, FALSE)]
\* delete_inode_and_direntry once the root directory was read: r is the
\* result of read(bdev, &ino, buf, BLOCK_SIZE, 0).
delete_scan(btm, cwd, inode_num, dk, ino, r) ==
    delete_dirent(btm, cwd, inode_num, dk, ino, r.buffer, r.ret,
                  find_dirent(r.buffer, r.ret \div size_of_DirEntry, inode_num, 2))
\* delete_inode_and_direntry once g = get_inode(bdev, 1) is known.
delete_in_root(btm, cwd, inode_num, dk, g) ==
    IF ~g.some THEN [btm |-> btm, disk |-> dk]
    ELSE delete_scan(btm, cwd, inode_num, dk, g.inode,
                     read(dk, g.inode,
                          Zeros(dir_buffer_capacity(g.inode.size)),
                          BLOCK_SIZE, 0))
\* delete_inode_and_direntry: the map and the device afterwards.  The
\* directory searched is always inode 1; cwd is the path given to delete.
delete_inode_and_direntry(btm, cwd, inode_num, dk) ==
    delete_in_root(btm, cwd, inode_num, dk, get_inode(dk, 1))

\* The cache slot and the device when delete or create returns: refresh
\* runs on the device as the call left it.
refreshed(dk) == [cache |-> refresh(dk), disk |-> dk]

\* delete without the refresh at its end: the map of
\* delete_inode_and_direntry is put back and stays.
delete_no_refresh(cache, path, inode_num, dk) ==
    IF cache.some
    THEN [cache |-> Some(delete_inode_and_direntry(cache.map, path, inode_num, dk).btm),
          disk |-> delete_inode_and_direntry(cache.map, path, inode_num, dk).disk]
    ELSE [cache |-> cache, disk |-> dk]
\* delete: the cache slot and the device afterwards.  The map that
\* delete_inode_and_direntry leaves is put back and then replaced by refresh.
delete(cache, path, inode_num, dk) ==
    refreshed(IF cache.some
              THEN delete_inode_and_direntry(cache.map, path, inode_num, dk).disk
              ELSE dk)

\* The Inode that create_new_file fabricates: mode 0o644, nlinks 1, size 0.
NewInode == [mode |-> 420, nlinks |-> 1, size |-> 0, zones |-> [i \in 0..9 |-> 0]]

\* The end of create_new_file: w is the result of the write of the new
\* inode, whose copy of the inode goes into the map.
create_insert(btm, cwd, filename, w, buf) ==
    [btm |-> Insert(btm, cwd \o (IF ~ends_with_slash(cwd) THEN <<47>> ELSE <<>>)
                             \o filename, w.inode),
     disk |-> w.disk, buf |-> buf]
\* create_new_file once the parent directory was read: r is the result of
\* read(bdev, &parent_inode, buf, BLOCK_SIZE, 0).  The new entry is copied
\* behind the sz bytes read, the imap bit is set, and the new inode goes
\* through write at get_inode_offset.
create_dirent(btm, cwd, filename, dk, free_inode_num, r) ==
    create_insert(btm, cwd, filename,
        write(update_imap(dk, free_inode_num, TRUE), NewInode,
              <<InodeCell(NewInode)>>, size_of_Inode, get_inode_offset(free_inode_num)),
        memcpy(r.buffer, r.ret \div size_of_DirEntry,
               <<DirEntryCell([inode |-> free_inode_num,
                               name |-> [i \in 1..NAME_LEN |->
                                   IF i <= Len(filename) THEN filename[i] ELSE 0]])>>,
               0, 1))
\* create_new_file once free_inode_num and the parent's inode are known.
create_in_parent(btm, cwd, filename, dk, free_inode_num, parent_inode) ==
    create_dirent(btm, cwd, filename, dk, free_inode_num,
                  read(dk, parent_inode,
                       Zeros(dir_buffer_capacity(parent_inode.size)),
                       BLOCK_SIZE, 0))
\* create_new_file, after find_free_inode gave free_inode_num: the map and
\* the device afterwards, and the scratch buffer of the parent directory,
\* which is dropped without being written to the device.  The parent is
\* looked up in the map by cwd; without it nothing is done.
create_new_file(btm, cwd, filename, dk) ==
    IF cwd \notin DOMAIN btm
    THEN [btm |-> btm, disk |-> dk, buf |-> <<>>]
    ELSE create_in_parent(btm, cwd, filename, dk, find_free_inode(dk).value, btm[cwd])

\* create: the cache slot and the device afterwards.
create(cache, cwd, filename, dk) ==
    refreshed(IF cache.some THEN create_new_file(cache.map, cwd, filename, dk).disk
              ELSE dk)

\* ------------------------------------------------------------ operations on directories

\* The images delete and create start from: those of MainParams, one where
\* the root directory holds two names, "a" and "e", of inode 2, and one where
\* file "a" ends inside its zone.
DirParams ==
    MainParams
    \cup [root : {BLOCK_SIZE}, hello : {BLOCK_SIZE}, big : {13 * BLOCK_SIZE},
          link : {TRUE}, magic : {MAGIC}]
    \cup [root : {BLOCK_SIZE}, hello : {2}, big : {13 * BLOCK_SIZE},
          link : {FALSE}, magic : {MAGIC}]

InitDir ==
    /\ disk \in {Image(p) : p \in DirParams}
    /\ MFS_INODE_CACHE = None
    /\ last = NoOp
    /\ lastw = NoWrite
    /\ nwrites = 0
    /\ procs = NoProcs
    /\ workers = NoWorkers

\* The calls delete(dev, path, inode_num): a file of the first root block
\* under its own name, the second name of a linked file (on the other images
\* a name that does not exist), a file of the second root block, and an
\* inode number no entry refers to.
DeleteCalls ==
    {<<<<47, 97>>, 2>>, <<<<47, 101>>, 2>>, <<<<47, 98>>, 3>>, <<<<47, 120>>, 7>>}
\* The calls create(dev, cwd, filename): in the root directory, and with the
\* path of a cached file as cwd.
CreateCalls == {<<<<47>>, <<110>>>>, <<<<47, 97>>, <<110>>>>}
\* The paths opened after them.
DirPaths == {<<47, 97>>, <<47, 101>>, <<47, 98>>, <<47, 110>>, <<47, 97, 47, 110>>}

\* delete; the unwrap of cache_at in the refresh at its end needs a super
\* block with the magic.
Delete ==
    \E c \in DeleteCalls :
        LET r == delete(MFS_INODE_CACHE, c[1], c[2], disk)
        IN  /\ nwrites < MaxDirOps
            /\ get_inode(disk, 1).some
            /\ disk' = r.disk
            /\ MFS_INODE_CACHE' = r.cache
            /\ last' = [NoOp EXCEPT !.op = "delete", !.path = c[1], !.num = c[2],
                                    !.err = IF MFS_INODE_CACHE.some
                                            THEN "present" ELSE "absent"]
            /\ nwrites' = nwrites + 1
            /\ UNCHANGED lastw
            /\ UNCHANGED pvars

\* create; find_free_inode(..).unwrap() needs a clear bit in the imap when
\* the cache is present.  last.num is the inode number it found.  max bounds
\* the number of calls made in a run.
CreateUpTo(max) ==
    \E c \in CreateCalls :
        LET r == create(MFS_INODE_CACHE, c[1], c[2], disk)
        IN  /\ nwrites < max
            /\ get_inode(disk, 1).some
            /\ MFS_INODE_CACHE.some => find_free_inode(disk).some
            /\ disk' = r.disk
            /\ MFS_INODE_CACHE' = r.cache
            /\ last' = [NoOp EXCEPT !.op = "create", !.path = c[1], !.name = c[2],
                                    !.num = find_free_inode(disk).value,
                                    !.err = IF MFS_INODE_CACHE.some
                                            THEN "present" ELSE "absent"]
            /\ nwrites' = nwrites + 1
            /\ UNCHANGED lastw
            /\ UNCHANGED pvars
Create == CreateUpTo(MaxDirOps)

OpenDir ==
    \E path \in DirPaths :
        LET o == open(MFS_INODE_CACHE, path)
        IN  /\ MFS_INODE_CACHE' = o.cache
            /\ last' = [NoOp EXCEPT !.op = "open", !.path = path,
                                    !.err = o.err, !.ino = o.inode]
            /\ UNCHANGED <<disk, lastw, nwrites>>
            /\ UNCHANGED pvars

NextDir == Delete \/ Create \/ OpenDir \/ InitFs \/ Refresh

SpecDir == InitDir /\ [][NextDir]_vars

\* ------------------------------------------------------------ claims on create and delete

\* C11: on an initialized device with a free inode, create(dev, "/", name)
\* followed by open of "/" + name returns Ok with an inode of size 0,
\* nlinks 1 and mode 0o644.
C11_CreateThenOpen ==
    [][(/\ last'.op = "create"
        /\ last'.path = <<47>>
        /\ MFS_INODE_CACHE.some
        /\ find_free_inode(disk).some)
       => LET o == open(MFS_INODE_CACHE', <<47>> \o last'.name)
          IN  /\ o.err = "Ok"
              /\ o.inode.size = 0
              /\ o.inode.nlinks = 1
              /\ o.inode.mode = 420]_vars

\* Whether the root directory of the device has, from the third entry on, an
\* entry of inode k whose name makes the path, k being no directory.
RootFile(dk, path, k) ==
    LET dir == get_inode(dk, 1).inode
        zs == LeafZones(dk, dir)
        n == Min(dir.size, Len(zs) * BLOCK_SIZE)
    IN  /\ k # 0
        /\ ~IsDir(get_inode(dk, k).inode.mode)
        /\ \E i \in 2..(n - 1) :
             /\ DirEntryOf(StreamByte(dk, zs, i)).inode = k
             /\ <<47>> \o NameChars(DirEntryOf(StreamByte(dk, zs, i)).name, 1) = path

\* C12: on an initialized device, delete(dev, p, k) of a regular file p of
\* the root directory with inode k leaves a cache without p, so that open of
\* p returns FileNotFound.
C12_DeleteThenOpen ==
    [][(/\ last'.op = "delete"
        /\ MFS_INODE_CACHE.some
        /\ RootFile(disk, last'.path, last'.num))
       => /\ MFS_INODE_CACHE'.some
          /\ last'.path \notin DOMAIN MFS_INODE_CACHE'.map
          /\ open(MFS_INODE_CACHE', last'.path).err = "FileNotFound"]_vars

\* Whether exactly one entry of the root directory, from the third on, has
\* inode k.
OnlyName(dk, k) ==
    LET dir == get_inode(dk, 1).inode
        zs == LeafZones(dk, dir)
        n == Min(dir.size, Len(zs) * BLOCK_SIZE)
    IN  Cardinality({i \in 2..(n - 1) : DirEntryOf(StreamByte(dk, zs, i)).inode = k}) = 1

\* C12, for a file that is the only name of its inode: on an initialized
\* device, delete(dev, p, k) of a regular file p of the root directory with
\* inode k, no other root entry having inode k, leaves a cache without p, so
\* that open of p returns FileNotFound.
C12_DeleteSingleName ==
    [][(/\ last'.op = "delete"
        /\ MFS_INODE_CACHE.some
        /\ RootFile(disk, last'.path, last'.num)
        /\ OnlyName(disk, last'.num))
       => /\ MFS_INODE_CACHE'.some
          /\ last'.path \notin DOMAIN MFS_INODE_CACHE'.map
          /\ open(MFS_INODE_CACHE', last'.path).err = "FileNotFound"]_vars

\* C12 witness: the first mutation of the run was delete(dev, "/a", 2) on a
\* present cache of an image where "a" is the only name of inode 2; the
\* cache now lists the file of the subdirectory and not "/a".
C12_Witness ==
    /\ last.op = "delete"
    /\ last.err = "present"
    /\ last.path = <<47, 97>>
    /\ last.num = 2
    /\ nwrites = 1
    /\ MFS_INODE_CACHE.some
    /\ <<47, 100, 47, 99>> \in DOMAIN MFS_INODE_CACHE.map
    /\ <<47, 97>> \notin DOMAIN MFS_INODE_CACHE.map
    /\ open(MFS_INODE_CACHE, <<47, 97>>).err = "FileNotFound"

\* Bit b of the imap region, which starts at block 2.
ImapBit(dk, b) == Bit(Field(dk[2 * BLOCK_SIZE + (b \div 8) + 1], 1), b % 8)
\* The bit indices of the imap region.
ImapBits(dk) == 0..(SuperBlockOf(dk[BLOCK_SIZE + 1]).imap_blocks * BLOCK_SIZE * 8 - 1)

\* C13: the imap bit that delete clears and that a create which found its
\* parent sets for inode n is bit n - 1 of the imap region (byte (n-1)/8,
\* bit (n-1) mod 8), and every other bit of the imap keeps its value.
C13_ImapBitOfInode ==
    [][/\ (last'.op = "delete" /\ MFS_INODE_CACHE.some)
          => \A b \in ImapBits(disk) :
                ImapBit(disk', b) = IF b = last'.num - 1 THEN 0 ELSE ImapBit(disk, b)
       /\ (/\ last'.op = "create"
           /\ MFS_INODE_CACHE.some
           /\ last'.path \in DOMAIN MFS_INODE_CACHE.map)
          => \A b \in ImapBits(disk) :
                ImapBit(disk', b) = IF b = last'.num - 1 THEN 1 ELSE ImapBit(disk, b)]_vars

\* C19: when create or delete has returned, the cache is present and is the
\* descent of the disk as it is then, whether the cache was present before
\* the call or not and whether the call changed the disk or not.
C19_MutationsRefresh ==
    last.op \in {"create", "delete"}
    => MFS_INODE_CACHE = Some(cache_at(EmptyMap, <<47>>, 1, disk).btm)

\* C19 witness: a create on a present cache found its parent and set the
\* imap bit of the inode number it took, and the cache is the descent of
\* the disk it left.
C19_Witness ==
    /\ last.op = "create"
    /\ last.err = "present"
    /\ last.path = <<47, 97>>
    /\ last.num = 6
    /\ ImapBit(disk, 6) = 1
    /\ MFS_INODE_CACHE = Some(cache_at(EmptyMap, <<47>>, 1, disk).btm)

\* ------------------------------------------------------------ find_free_inode, alone

\* The inode bitmaps scanned.  p.blocks is imap_blocks; the bytes before
\* byte p.at of blocks 2 and 3 are full, byte p.at has the value p.byte, and
\* the bytes behind it have the value p.rest.  With p.at = 2 * BLOCK_SIZE
\* every byte is full.  With one imap block, block 3 is the zone bitmap.
FreeParams ==
    [blocks : {1, 2}, at : 0..(2 * BLOCK_SIZE),
     byte : {254, 127, 251, 63, 0}, rest : {255, 0}]
\* The device of p: boot block, super block and the two bitmap blocks.
FreeImage(p) ==
    Zeros(BLOCK_SIZE)
    \o PadBlock(<< <<8 * BLOCK_SIZE * p.blocks, p.blocks, 1, 5, 8, MAGIC>> >>)
    \o [i \in 1..(2 * BLOCK_SIZE) |->
          IF i - 1 < p.at THEN <<255>>
          ELSE IF i - 1 = p.at THEN <<p.byte>> ELSE <<p.rest>>]

InitFree ==
    /\ disk \in {FreeImage(p) : p \in FreeParams}
    /\ MFS_INODE_CACHE = None
    /\ last = NoOp
    /\ lastw = NoWrite
    /\ nwrites = 0
    /\ procs = NoProcs
    /\ workers = NoWorkers

\* find_free_inode as the first call on the device.
FindFree ==
    /\ last = NoOp
    /\ last' = [NoOp EXCEPT !.op = "find_free_inode",
                            !.ret = find_free_inode(disk).value,
                            !.err = IF find_free_inode(disk).some
                                    THEN "Some" ELSE "None"]
    /\ UNCHANGED <<disk, MFS_INODE_CACHE, lastw, nwrites>>
    /\ UNCHANGED pvars

NextFree == FindFree

SpecFree == InitFree /\ [][NextFree]_vars

\* C14: when the imap has a clear bit, find_free_inode returns the index of
\* a clear bit of the imap, and every bit below that index is set.
C14_LowestClearBit ==
    (/\ last.op = "find_free_inode"
     /\ \E b \in ImapBits(disk) : ImapBit(disk, b) = 0)
    => /\ last.err = "Some"
       /\ last.ret \in ImapBits(disk)
       /\ ImapBit(disk, last.ret) = 0
       /\ \A b \in ImapBits(disk) : b < last.ret => ImapBit(disk, b) = 1

\* ------------------------------------------------------------ the BIO shim, alone

\* The devices of the BIO calls: DevBlocks blocks of cells that all differ,
\* with no unreadable cell (bad = 0) or with cell number bad unreadable.
DevBlocks == 3
DevCell(i) == <<10 + i>>
Device(bad) ==
    [i \in 1..(DevBlocks * BLOCK_SIZE) |-> IF i = bad THEN BadCell ELSE DevCell(i)]

InitBio ==
    /\ disk \in {Device(bad) : bad \in 0..(DevBlocks * BLOCK_SIZE)}
    /\ MFS_INODE_CACHE = None
    /\ last = NoOp
    /\ lastw = NoWrite
    /\ nwrites = 0
    /\ procs = NoProcs
    /\ workers = NoWorkers

\* The sizes and offsets of the BIO calls: inside a block, across blocks, up
\* to and past the end of the device.
BioSizes == (1..MaxSize) \cup {2 * BLOCK_SIZE + 1}
BioOffsets == 0..(DevBlocks * BLOCK_SIZE)

\* syc_write(bdev, src, size, offset) as the first call on the device.
SycWrite ==
    \E size \in BioSizes, offset \in BioOffsets :
        /\ last = NoOp
        /\ disk' = syc_write(disk, Data(size), size, offset).disk
        /\ last' = [NoOp EXCEPT !.op = "syc_write", !.size = size, !.offset = offset,
                                !.buf = Data(size),
                                !.ret = syc_write(disk, Data(size), size, offset).status]
        /\ nwrites' = nwrites + 1
        /\ UNCHANGED <<MFS_INODE_CACHE, lastw>>
        /\ UNCHANGED pvars

\* syc_read(bdev, buffer, size, offset) into a new Buffer of size cells, as
\* the first call on the device.
SycRead ==
    \E size \in BioSizes, offset \in BioOffsets :
        /\ last = NoOp
        /\ last' = [NoOp EXCEPT !.op = "syc_read", !.size = size, !.offset = offset,
                                !.buf = syc_read(disk, Zeros(size), size, offset).buffer,
                                !.ret = syc_read(disk, Zeros(size), size, offset).status]
        /\ UNCHANGED <<disk, MFS_INODE_CACHE, lastw, nwrites>>
        /\ UNCHANGED pvars

NextBio == SycWrite \/ SycRead

SpecBio == InitBio /\ [][NextBio]_vars

\* The status of the device read issued for the units of `unit` cells that
\* cover [offset, offset + size): unit is SECTOR_SIZE in syc_read and
\* BLOCK_SIZE in syc_write.
DeviceReadStatus(dk, size, offset, unit) ==
    LET block_start == offset \div unit
        block_end == (offset + size + unit - 1) \div unit
    IN  block_read(dk, (block_end - block_start) * unit, block_start * unit).status

\* C15: a syc_write whose device read and device write both report success
\* leaves the device with src in cells [offset, offset + size) and every
\* other cell as it was, for aligned and unaligned offsets and sizes.
C15_WriteIsReadModifyWrite ==
    [][(/\ last'.op = "syc_write"
        /\ DeviceReadStatus(disk, last'.size, last'.offset, BLOCK_SIZE) = 0
        /\ last'.ret = 0)
       => /\ Len(disk') = Len(disk)
          /\ \A i \in 1..Len(disk) :
                disk'[i] = IF i > last'.offset /\ i <= last'.offset + last'.size
                           THEN last'.buf[i - last'.offset]
                           ELSE disk[i]]_vars

\* C15 witness: a successful write that starts and ends inside blocks, with
\* the cells before and behind the range, in the blocks rewritten, still
\* holding the device's values and the range holding src.
C15_Witness ==
    /\ last.op = "syc_write"
    /\ last.ret = 0
    /\ last.offset % BLOCK_SIZE # 0
    /\ (last.offset + last.size) % BLOCK_SIZE # 0
    /\ last.offset \div BLOCK_SIZE # (last.offset + last.size) \div BLOCK_SIZE
    /\ disk[last.offset] = DevCell(last.offset)
    /\ disk[last.offset + last.size + 1] = DevCell(last.offset + last.size + 1)
    /\ \A i \in 1..last.size : disk[last.offset + i] = last.buf[i]

\* C16: a non-zero status of a device operation is what the BIO call
\* returns: syc_read returns the status of its device read; syc_write
\* returns the status of its device read when that read fails, and then
\* leaves the device as it was, no device write being issued.
C16_StatusPropagated ==
    [][/\ (/\ last'.op = "syc_read"
           /\ DeviceReadStatus(disk, last'.size, last'.offset, SECTOR_SIZE) # 0)
          => last'.ret = DeviceReadStatus(disk, last'.size, last'.offset, SECTOR_SIZE)
       /\ (/\ last'.op = "syc_write"
           /\ DeviceReadStatus(disk, last'.size, last'.offset, BLOCK_SIZE) # 0)
          => /\ last'.ret = DeviceReadStatus(disk, last'.size, last'.offset, BLOCK_SIZE)
             /\ disk' = disk]_vars

\* ------------------------------------------------------------ process_read and process_write

\* The callers of process_read and process_write.
NumPids == 2
Pids == 1..NumPids
\* The most calls one caller makes in one run.
MaxCalls == 1

\* The devices of the callers: an image as formatted, an image whose super
\* block has another magic, and an image where the first data sector of
\* file 2 cannot be read back.
Unreadable(dk, i) == [dk EXCEPT ![i] = BadCell]
ProcImage(magic) ==
    Image([root |-> BLOCK_SIZE, hello |-> BLOCK_SIZE, big |-> 13 * BLOCK_SIZE,
           link |-> FALSE, magic |-> magic])
ProcImages ==
    {ProcImage(MAGIC), ProcImage(0), Unreadable(ProcImage(MAGIC), 9 * BLOCK_SIZE + 1)}

\* The requests <<node, size, offset>> of the callers.
Requests == {<<2, 2, 1>>, <<3, BLOCK_SIZE + 1, 6 * BLOCK_SIZE>>}

\* A process that made no call: running, with nothing put into its A0.
\* calls and resumes count its process_read/process_write calls and how
\* often set_running woke it from waiting.
NewProc ==
    [state |-> "running", a0 |-> [written |-> FALSE, value |-> 0],
     calls |-> 0, resumes |-> 0, req |-> <<>>]
\* No worker spawned for a caller.
NoWorker ==
    [pc |-> "none", op |-> "none", req |-> <<>>, inode |-> InodeOf(ZeroCell),
     bytes |-> 0]

InitProc ==
    /\ disk \in ProcImages
    /\ MFS_INODE_CACHE = None
    /\ last = NoOp
    /\ lastw = NoWrite
    /\ nwrites = 0
    /\ procs = [p \in Pids |-> NewProc]
    /\ workers = [p \in Pids |-> NoWorker]

\* set_waiting(pid) and set_running(pid): the process table afterwards.
set_waiting(table, pid) == [table EXCEPT ![pid].state = "waiting"]
set_running(table, pid) ==
    [table EXCEPT ![pid].state = "running",
                  ![pid].resumes = IF table[pid].state = "waiting" THEN @ + 1 ELSE @]
\* The frame of a caller with nothing stored in regs[A0].
store_a0_skipped(frame, bytes) == frame
\* (*(*ptr).frame).regs[A0] = bytes.
store_a0(frame, bytes) == [written |-> TRUE, value |-> bytes]
\* add_kernel_process_args(func, args): the workers afterwards.
add_kernel_process_args(ws, pid, op, req) ==
    [ws EXCEPT ![pid] = [NoWorker EXCEPT !.pc = "spawned", !.op = op, !.req = req]]

\* process_read / process_write, called by a running process in its system
\* call: the A0 of the pending call is not yet the result.
ProcessCall(op) ==
    \E pid \in Pids, req \in Requests :
        /\ procs[pid].state = "running"
        /\ procs[pid].calls < MaxCalls
        /\ procs' = set_waiting(
                [procs EXCEPT ![pid].calls = @ + 1, ![pid].req = req,
                              ![pid].a0 = [written |-> FALSE, value |-> 0]], pid)
        /\ workers' = add_kernel_process_args(workers, pid, op, req)
        /\ UNCHANGED <<disk, MFS_INODE_CACHE, last, lastw, nwrites>>
ProcessRead == ProcessCall("read")
ProcessWrite == ProcessCall("write")

\* read_proc / write_proc up to inode.unwrap(): the worker goes on with the
\* inode, or panics when get_inode gave None.
WorkerGetInode(pid) ==
    /\ workers[pid].pc = "spawned"
    /\ workers' =
         [workers EXCEPT ![pid].pc = IF get_inode(disk, workers[pid].req[1]).some
                                     THEN "got_inode" ELSE "panicked",
                         ![pid].inode = get_inode(disk, workers[pid].req[1]).inode]
    /\ UNCHANGED <<disk, MFS_INODE_CACHE, last, lastw, nwrites, procs>>

\* read_proc: MinixFileSystem::read into the caller's buffer.
WorkerRead(pid) ==
    /\ workers[pid].pc = "got_inode"
    /\ workers[pid].op = "read"
    /\ workers' =
         [workers EXCEPT ![pid].pc = "done_io",
                         ![pid].bytes = read(disk, workers[pid].inode,
                                             Zeros(workers[pid].req[2]),
                                             workers[pid].req[2],
                                             workers[pid].req[3]).ret]
    /\ UNCHANGED <<disk, MFS_INODE_CACHE, last, lastw, nwrites, procs>>

\* write_proc: MinixFileSystem::write from the caller's buffer.
WorkerWrite(pid) ==
    /\ workers[pid].pc = "got_inode"
    /\ workers[pid].op = "write"
    /\ disk' = write(disk, workers[pid].inode, Data(workers[pid].req[2]),
                     workers[pid].req[2], workers[pid].req[3]).disk
    /\ workers' =
         [workers EXCEPT ![pid].pc = "done_io",
                         ![pid].bytes = write(disk, workers[pid].inode,
                                              Data(workers[pid].req[2]),
                                              workers[pid].req[2],
                                              workers[pid].req[3]).ret]
    /\ UNCHANGED <<MFS_INODE_CACHE, last, lastw, nwrites, procs>>

\* The store of the byte count into the caller's A0 (get_by_pid gives the
\* caller's frame).
WorkerStoreA0(pid) ==
    /\ workers[pid].pc = "done_io"
    /\ procs' = [procs EXCEPT ![pid].a0 = store_a0(@, workers[pid].bytes)]
    /\ workers' = [workers EXCEPT ![pid].pc = "stored"]
    /\ UNCHANGED <<disk, MFS_INODE_CACHE, last, lastw, nwrites>>

\* set_running(args.pid), the last statement of the worker.
WorkerSetRunning(pid) ==
    /\ workers[pid].pc = "stored"
    /\ procs' = set_running(procs, pid)
    /\ workers' = [workers EXCEPT ![pid].pc = "finished"]
    /\ UNCHANGED <<disk, MFS_INODE_CACHE, last, lastw, nwrites>>

\* One step of the worker of pid.
WorkerStep(pid) ==
    \/ WorkerGetInode(pid)
    \/ WorkerRead(pid)
    \/ WorkerWrite(pid)
    \/ WorkerStoreA0(pid)
    \/ WorkerSetRunning(pid)

NextProc == ProcessRead \/ ProcessWrite \/ \E pid \in Pids : WorkerStep(pid)

SpecProc == InitProc /\ [][NextProc]_vars

\* The positions of a worker that was spawned and has not ended.
Alive == {"spawned", "got_inode", "done_io", "stored"}

\* C17: a worker runs only while its caller is waiting; a caller that made a
\* call is running only with the byte count stored in its A0; the step that
\* sets a caller running finds in A0 the byte count its own worker got for
\* the caller's own request; and a caller is woken at most once per call,
\* exactly once when it runs again.
C17_CallerSeesCompletion ==
    /\ [](\A p \in Pids :
            /\ workers[p].pc \in Alive => procs[p].state = "waiting"
            /\ (procs[p].state = "running" /\ procs[p].calls > 0)
                 => procs[p].a0.written
            /\ procs[p].resumes <= procs[p].calls
            /\ procs[p].state = "running" => procs[p].resumes = procs[p].calls)
    /\ [][\A p \in Pids :
            (procs[p].state = "waiting" /\ procs'[p].state = "running")
            => /\ procs[p].a0 = [written |-> TRUE, value |-> workers[p].bytes]
               /\ procs'[p].a0 = procs[p].a0
               /\ workers[p].req = procs[p].req
               /\ procs'[p].resumes = procs[p].resumes + 1]_vars

\* C17 witness: both callers were parked with different requests, one a
\* read and one a write; the first runs again with its own byte count in A0
\* while the worker of the second is between its device calls.
C17_Witness ==
    /\ procs[1].state = "running"
    /\ procs[1].calls = 1
    /\ procs[1].resumes = 1
    /\ procs[1].a0 = [written |-> TRUE, value |-> 2]
    /\ workers[1].op = "read"
    /\ procs[2].state = "waiting"
    /\ workers[2].op = "write"
    /\ workers[2].req # workers[1].req
    /\ workers[2].pc = "got_inode"

\* C18: a caller parked as waiting is set running again when its worker is
\* scheduled, whatever the device holds and returns.  Only the worker of a
\* caller sets it running, so a caller that waits has a worker that has not
\* ended: one that is spawned and still has a step to take.
C18_ParkedCallerHasWorker ==
    \A p \in Pids : procs[p].state = "waiting" => workers[p].pc \in Alive

\* ------------------------------------------------------------ workers that share the cache

\* The most operations on the cache started in one run.
MaxCacheOps == 4

\* show_all_file_paths: the cache slot afterwards; the taken map is printed
\* and put back.
show_all_file_paths(cache) == cache

\* A worker that runs no operation.  In an operation, pc is "held" between
\* the take() of delete or create and their replace(), where the worker
\* waits for the block device, and "refresh" before the refresh at their
\* end; btm is the map the worker took, seq the number of the operation and
\* slot what its take() found: a map ("present"), nothing because another
\* worker holds the map ("taken"), or nothing because none was built
\* ("absent").
IdleWorker ==
    [pc |-> "idle", op |-> "none", path |-> <<>>, name |-> <<>>, num |-> 0,
     btm |-> EmptyMap, seq |-> 0, slot |-> "none"]
\* The paths opened while other workers run: the file that the delete of
\* these runs removes, and a file of the subdirectory, which no operation of
\* these runs touches.
CachePaths == {<<47, 97>>, <<47, 100, 47, 99>>}

InitCache ==
    /\ disk \in {Image(p) : p \in MainParams}
    /\ MFS_INODE_CACHE = None
    /\ last = NoOp
    /\ lastw = NoWrite
    /\ nwrites = 0
    /\ procs = NoProcs
    /\ workers = [w \in Pids |-> IdleWorker]

\* open and show_all_file_paths: no device call lies between their take()
\* and their replace(), so a worker runs each of them in one step.
CacheOpen(w) ==
    \E path \in CachePaths :
        /\ workers[w].pc = "idle"
        /\ nwrites < MaxCacheOps
        /\ MFS_INODE_CACHE' = open(MFS_INODE_CACHE, path).cache
        /\ last' = [NoOp EXCEPT !.op = "open", !.path = path,
                                !.err = open(MFS_INODE_CACHE, path).err,
                                !.ino = open(MFS_INODE_CACHE, path).inode,
                                !.seq = nwrites + 1]
        /\ nwrites' = nwrites + 1
        /\ UNCHANGED <<disk, lastw, procs, workers>>
CacheShow(w) ==
    /\ workers[w].pc = "idle"
    /\ nwrites < MaxCacheOps
    /\ MFS_INODE_CACHE' = show_all_file_paths(MFS_INODE_CACHE)
    /\ nwrites' = nwrites + 1
    /\ UNCHANGED <<disk, last, lastw, procs, workers>>

\* init and refresh: the descent of the disk, then the store into the slot.
CacheInit(w) ==
    /\ workers[w].pc = "idle"
    /\ nwrites < MaxCacheOps
    /\ get_inode(disk, 1).some
    /\ MFS_INODE_CACHE' = init(MFS_INODE_CACHE, disk)
    /\ nwrites' = nwrites + 1
    /\ UNCHANGED <<disk, last, lastw, procs, workers>>
CacheRefresh(w) ==
    /\ workers[w].pc = "idle"
    /\ nwrites < MaxCacheOps
    /\ get_inode(disk, 1).some
    /\ MFS_INODE_CACHE' = refresh(disk)
    /\ nwrites' = nwrites + 1
    /\ UNCHANGED <<disk, last, lastw, procs, workers>>

\* The start of delete(dev, "/a", 2) or create(dev, "/a", "n"): take() from
\* the slot.  With a map taken the worker goes on to the device calls of
\* delete_inode_and_direntry or create_new_file, without one to the refresh.
CacheTake(w) ==
    \E op \in {"delete", "create"} :
        /\ workers[w].pc = "idle"
        /\ nwrites < MaxCacheOps
        /\ workers' =
             [workers EXCEPT ![w] =
                [pc |-> IF MFS_INODE_CACHE.some THEN "held" ELSE "refresh",
                 op |-> op, path |-> <<47, 97>>, name |-> <<110>>, num |-> 2,
                 btm |-> MFS_INODE_CACHE.map, seq |-> nwrites + 1,
                 slot |-> IF MFS_INODE_CACHE.some THEN "present"
                          ELSE IF \E v \in Pids : workers[v].pc = "held"
                          THEN "taken" ELSE "absent"]]
        /\ MFS_INODE_CACHE' = None
        /\ nwrites' = nwrites + 1
        /\ UNCHANGED <<disk, last, lastw, procs>>

\* delete_inode_and_direntry and the replace() of delete.
CacheDeleteBody(w) ==
    /\ workers[w].pc = "held"
    /\ workers[w].op = "delete"
    /\ disk' = delete_inode_and_direntry(workers[w].btm, workers[w].path,
                                         workers[w].num, disk).disk
    /\ MFS_INODE_CACHE' =
         Some(delete_inode_and_direntry(workers[w].btm, workers[w].path,
                                        workers[w].num, disk).btm)
    /\ workers' = [workers EXCEPT ![w].pc = "refresh", ![w].btm = EmptyMap]
    /\ UNCHANGED <<last, lastw, nwrites, procs>>

\* create_new_file and the replace() of create.
CacheCreateBody(w) ==
    /\ workers[w].pc = "held"
    /\ workers[w].op = "create"
    /\ find_free_inode(disk).some
    /\ disk' = create_new_file(workers[w].btm, workers[w].path,
                               workers[w].name, disk).disk
    /\ MFS_INODE_CACHE' =
         Some(create_new_file(workers[w].btm, workers[w].path,
                              workers[w].name, disk).btm)
    /\ workers' = [workers EXCEPT ![w].pc = "refresh", ![w].btm = EmptyMap]
    /\ UNCHANGED <<last, lastw, nwrites, procs>>

\* The refresh at the end of delete and create, after which the call
\* returns.
CacheRefreshEnd(w) ==
    /\ workers[w].pc = "refresh"
    /\ get_inode(disk, 1).some
    /\ MFS_INODE_CACHE' = refresh(disk)
    /\ workers' = [workers EXCEPT ![w] = IdleWorker]
    /\ last' = [NoOp EXCEPT !.op = workers[w].op, !.path = workers[w].path,
                            !.name = workers[w].name, !.num = workers[w].num,
                            !.err = workers[w].slot, !.seq = workers[w].seq]
    /\ UNCHANGED <<disk, lastw, nwrites, procs>>

NextCache ==
    \E w \in Pids :
        \/ CacheOpen(w)
        \/ CacheShow(w)
        \/ CacheInit(w)
        \/ CacheRefresh(w)
        \/ CacheTake(w)
        \/ CacheDeleteBody(w)
        \/ CacheCreateBody(w)
        \/ CacheRefreshEnd(w)

SpecCache == InitCache /\ [][NextCache]_vars

\* C20: at most one worker at a time is between taking the cache out of the
\* slot and putting it back.
C20_OneHolder ==
    Cardinality({w \in Pids : workers[w].pc = "held"}) <= 1

\* ------------------------------------------------------------ get_inode, alone

\* The super blocks of the devices get_inode is called on: one or two imap
\* blocks, one to three zmap blocks, and the magic, no magic or another one.
InodeParams == [imap : 1..2, zmap : 1..3, magic : {MAGIC, 0, MAGIC + 1}]
\* Inode number n of these devices: every inode differs from every other.
TableInode(n) == MkInode(S_IFREG + 420, n, <<100 + n>>)
\* The device of p: boot block, super block, the bitmaps, and an inode table
\* of two blocks that ends the device.
InodeImage(p) ==
    Zeros(BLOCK_SIZE)
    \o PadBlock(<< <<2 * BLOCK_SIZE, p.imap, p.zmap, 4 + p.imap + p.zmap,
                     4 + p.imap + p.zmap, p.magic>> >>)
    \o Zeros((p.imap + p.zmap) * BLOCK_SIZE)
    \o [i \in 1..(2 * BLOCK_SIZE) |-> TableInode(i)]

InitInode ==
    /\ disk \in {InodeImage(p) : p \in InodeParams}
    /\ MFS_INODE_CACHE = None
    /\ last = NoOp
    /\ lastw = NoWrite
    /\ nwrites = 0
    /\ procs = NoProcs
    /\ workers = NoWorkers

\* get_inode(dev, n) as the first call on the device, for the numbers of
\* both blocks of the table and for the first number behind the table.
GetInode ==
    \E n \in 1..(2 * BLOCK_SIZE + 1) :
        /\ last = NoOp
        /\ last' = [NoOp EXCEPT !.op = "get_inode", !.num = n,
                                !.ino = get_inode(disk, n).inode,
                                !.err = IF get_inode(disk, n).some
                                        THEN "Some" ELSE "None"]
        /\ UNCHANGED <<disk, MFS_INODE_CACHE, lastw, nwrites>>
        /\ UNCHANGED pvars

NextInode == GetInode

SpecInode == InitInode /\ [][NextInode]_vars

\* The super block stored on the device.
SuperBlockOn(dk) == SuperBlockOf(dk[BLOCK_SIZE + 1])
\* The offset of inode n in the inode table that follows the bitmaps:
\* (2 + imap_blocks + zmap_blocks) blocks and n - 1 inodes.
InodeSlot(dk, n) ==
    (2 + SuperBlockOn(dk).imap_blocks + SuperBlockOn(dk).zmap_blocks) * BLOCK_SIZE
    + (n - 1) * size_of_Inode

\* C21: get_inode(dev, n) returns absent exactly when the magic of the super
\* block on the device is not MAGIC; when it is MAGIC and the slot of inode n
\* lies on the device, it returns the inode stored at offset
\* (2 + imap_blocks + zmap_blocks) blocks + (n - 1) inodes, for the numbers
\* of the first and of the later blocks of the table.
C21_GetInodeBySlot ==
    last.op = "get_inode"
    => /\ (last.err = "None") <=> (SuperBlockOn(disk).magic # MAGIC)
       /\ (last.err = "Some" /\ InodeSlot(disk, last.num) < Len(disk))
            => last.ino = InodeOf(disk[InodeSlot(disk, last.num) + 1])

\* C21 witness: an inode of the second block of the table was asked for on a
\* device with the magic, and the inode returned is the one of its slot.
C21_Witness ==
    /\ last.op = "get_inode"
    /\ last.err = "Some"
    /\ last.num > BLOCK_SIZE \div size_of_Inode
    /\ InodeSlot(disk, last.num) < Len(disk)
    /\ last.ino = InodeOf(TableInode(last.num))
    /\ last.ino = InodeOf(disk[InodeSlot(disk, last.num) + 1])

\* C22: for every inode number n and every super block, get_inode_offset(n)
\* is the offset of inode n in the inode table,
\* (2 + imap_blocks + zmap_blocks) blocks + (n-1) / 16 blocks
\* + (n-1) mod 16 inodes, which is where get_inode reads inode n from.
C22_InodeOffsetIsSlot ==
    LET per_block == BLOCK_SIZE \div size_of_Inode
        sb == SuperBlockOn(disk)
    IN  (last.op = "get_inode" /\ last.err = "Some"
         /\ InodeSlot(disk, last.num) < Len(disk))
        => /\ get_inode_offset(last.num)
                = (2 + sb.imap_blocks + sb.zmap_blocks) * BLOCK_SIZE
                  + ((last.num - 1) \div per_block) * BLOCK_SIZE
                  + ((last.num - 1) % per_block) * size_of_Inode
           /\ get_inode_offset(last.num) < Len(disk)
                => last.ino = InodeOf(disk[get_inode_offset(last.num) + 1])

\* ------------------------------------------------------------ what create leaves on the device

\* C23: after a create that found its parent in the cache and took inode
\* number k from find_free_inode, the slot of inode k in the inode table
\* holds the new inode (mode 0o644, nlinks 1, size 0, all zones 0), and
\* get_inode(dev, k) returns it.
C23_NewInodePersisted ==
    [][(/\ last'.op = "create"
        /\ MFS_INODE_CACHE.some
        /\ last'.path \in DOMAIN MFS_INODE_CACHE.map
        /\ find_free_inode(disk).some)
       => /\ disk'[InodeSlot(disk, last'.num) + 1] = InodeCell(NewInode)
          /\ get_inode(disk', last'.num).some
          /\ get_inode(disk', last'.num).inode = NewInode]_vars

\* C30: after a create that found its parent in the cache and took inode
\* number k, the data stream of the parent on the device holds, at the
\* offset that was the parent's size before the call, the entry of inode k
\* with the name NUL padded; stated for a parent whose zones hold that
\* offset.
C30_DirEntryAppended ==
    [][(/\ last'.op = "create"
        /\ MFS_INODE_CACHE.some
        /\ last'.path \in DOMAIN MFS_INODE_CACHE.map
        /\ find_free_inode(disk).some
        /\ StreamHolds(disk, LeafZones(disk, MFS_INODE_CACHE.map[last'.path]),
                       MFS_INODE_CACHE.map[last'.path].size + size_of_DirEntry))
       => DirEntryOf(StreamByte(disk',
                                LeafZones(disk', MFS_INODE_CACHE.map[last'.path]),
                                MFS_INODE_CACHE.map[last'.path].size))
          = [inode |-> last'.num,
             name |-> [i \in 1..NAME_LEN |->
                         IF i <= Len(last'.name) THEN last'.name[i] ELSE 0]]]_vars

\* ------------------------------------------------------------ delete without a match

\* Whether an entry of the root directory that the loop of
\* delete_inode_and_direntry looks at (index 2 up to the entries read by its
\* one read of a block at offset 0) has inode k.
ScannedEntryOf(dk, k) ==
    LET ino == get_inode(dk, 1).inode
        r == read(dk, ino, Zeros(dir_buffer_capacity(ino.size)),
                  BLOCK_SIZE, 0)
    IN  \E i \in 2..(r.ret \div size_of_DirEntry - 1) :
            DirEntryOf(r.buffer[i + 1]).inode = k

\* C29: a delete on an initialized device for an inode number that no
\* scanned entry of the root directory has leaves the device as it was, the
\* inode bitmap included.
C29_DeleteOfNoEntry ==
    [][(/\ last'.op = "delete"
        /\ MFS_INODE_CACHE.some
        /\ ~ScannedEntryOf(disk, last'.num))
       => disk' = disk]_vars

\* ------------------------------------------------------------ a device without the magic

\* C24: on a device whose super block does not hold MAGIC, get_inode is
\* absent and the read and write workers surface it as a transfer of zero
\* bytes: no worker crashes, and a worker that ended has stored 0 in the
\* A0 of its caller and set the caller running.
C24_AbsentIsReadOfZero ==
    SuperBlockOn(disk).magic # MAGIC
    => \A p \in Pids :
          /\ ~get_inode(disk, 1).some
          /\ workers[p].pc # "panicked"
          /\ workers[p].pc = "finished"
               => /\ procs[p].a0 = [written |-> TRUE, value |-> 0]
                  /\ procs[p].state = "running"

\* ------------------------------------------------------------ the zones write reaches

\* C25: write walks the logical stream of read: a write whose offset lies in
\* logical block b of the inode's leaf zones (direct zones, then the leaves
\* of zones[7], zones[8] and zones[9], zero pointers left out) transfers its
\* data to leaf zone b first and returns a count that is not zero, also when
\* zone b is a leaf of the doubly or triply indirect tree.
C25_WriteWalksReadStream ==
    [][(/\ last'.op = "write"
        /\ last'.size > 0
        /\ last'.offset \div BLOCK_SIZE < Len(LeafZones(disk, last'.ino)))
       => /\ last'.ret # 0
          /\ disk'[LeafZones(disk, last'.ino)[last'.offset \div BLOCK_SIZE + 1]
                   * BLOCK_SIZE + 1] = last'.buf[1]]_vars

\* C26: a write changes only cells that lie inside the blocks of the
\* inode's own non-zero data zones: no cell of a block of another file, of a
\* bitmap, of the inode table or of a pointer block changes, also when size
\* is larger than a block.
C26_WriteStaysInOwnZones ==
    [][last'.op = "write"
       => \A i \in 1..Len(disk) :
             disk'[i] # disk[i]
             => ((i - 1) \div BLOCK_SIZE) \in Range(LeafZones(disk, last'.ino))]_vars

\* ------------------------------------------------------------ calls that overlap a held cache

\* Whether the cache of the device was built: the slot holds a map, or a
\* worker holds the map it took out of the slot.
CacheBuilt == MFS_INODE_CACHE.some \/ \E w \in Pids : workers[w].pc = "held"

\* C27: once the cache was built, open of a path that is present on the
\* device as a regular file, and that no delete under way names, does not
\* return FileNotFound, whatever create or delete workers are between their
\* take() and their replace().
C27_OpenFindsPresentFile ==
    [][(/\ last' # last
        /\ last'.op = "open"
        /\ CacheBuilt
        /\ \E f \in ReachableFiles(disk, <<47>>, 1) : f[1] = last'.path
        /\ \A w \in Pids :
              workers[w].op = "delete" => workers[w].path # last'.path)
       => last'.err # "FileNotFound"]_vars

\* C28: a delete(dev, p, k) called on a device whose cache was built has,
\* when it returns, left no entry of inode k with the name of p in the root
\* directory, also when its take() found the slot emptied by another worker
\* that holds the cache.
C28_DeleteNotLost ==
    [][(/\ last' # last
        /\ last'.op = "delete"
        /\ last'.err \in {"present", "taken"})
       => ~RootFile(disk', last'.path, last'.num)]_vars

\* ------------------------------------------------------------ what delete leaves on the device

\* The cell numbers of the entries of the root directory from the third on,
\* in the order of the directory's data stream.
RootEntryCells(dk) ==
    LET dir == get_inode(dk, 1).inode
        zs == LeafZones(dk, dir)
        n == Min(dir.size, Len(zs) * BLOCK_SIZE)
    IN  [j \in 1..(IF n > 2 THEN n - 2 ELSE 0) |->
            zs[((j + 1) \div BLOCK_SIZE) + 1] * BLOCK_SIZE + ((j + 1) % BLOCK_SIZE) + 1]
\* The cells among them whose entry has inode k, in that order.
RootCellsOf(dk, k) ==
    SelectSeq(RootEntryCells(dk), LAMBDA a : DirEntryOf(dk[a]).inode = k)
\* The blocks of the inode bitmap.
ImapBlocks(dk) == 2..(1 + SuperBlockOn(dk).imap_blocks)

\* C31: a delete(dev, path, k), run alone on an initialized device whose root
\* directory has an entry of inode k at index 2 or later, sets the inode
\* field of the first such entry to 0, whatever path is, and leaves the name
\* of that entry and every cell of the device outside the inode bitmap
\* (the other entries, the inode table, the zone bitmap) as they were.
C31_DeleteZeroesFirstEntry ==
    [][(/\ last'.op = "delete"
        /\ MFS_INODE_CACHE.some
        /\ RootCellsOf(disk, last'.num) # <<>>)
       => /\ DirEntryOf(disk'[Head(RootCellsOf(disk, last'.num))])
               = [DirEntryOf(disk[Head(RootCellsOf(disk, last'.num))])
                    EXCEPT !.inode = 0]
          /\ \A c \in 1..Len(disk) :
                (/\ c # Head(RootCellsOf(disk, last'.num))
                 /\ ((c - 1) \div BLOCK_SIZE) \notin ImapBlocks(disk))
                => disk'[c] = disk[c]]_vars

\* ------------------------------------------------------------ the inode after a write

\* The blocks of the inode table: from behind the bitmaps to the first data
\* zone.
InodeTableBlocks(dk) ==
    (2 + SuperBlockOn(dk).imap_blocks + SuperBlockOn(dk).zmap_blocks)
        ..(SuperBlockOn(dk).first_data_zone - 1)

\* C32: after every write the caller's inode has the returned byte count as
\* its size, and no cell of the inode table on the device has changed.
C32_SizeIsBytesWritten ==
    [][last'.op = "write"
       => /\ lastw'.after.size = last'.ret
          /\ \A i \in 1..Len(disk) :
                ((i - 1) \div BLOCK_SIZE) \in InodeTableBlocks(disk)
                => disk'[i] = disk[i]]_vars

\* ------------------------------------------------------------ creates in a row

\* The number of creates made in a row.
MaxCreates == 3
CreateMany == CreateUpTo(MaxCreates)
NextAlloc == CreateMany \/ OpenDir \/ InitFs \/ Refresh
SpecAlloc == InitDir /\ [][NextAlloc]_vars

\* C33: inode allocation is unique: once a create has taken
\* k = find_free_inode(dev) and has set the imap bit for k, the next
\* find_free_inode(dev) does not return k, whatever the inode bitmap held.
C33_AllocationUnique ==
    [][(/\ last'.op = "create"
        /\ MFS_INODE_CACHE.some
        /\ last'.path \in DOMAIN MFS_INODE_CACHE.map)
       => \/ ~find_free_inode(disk').some
          \/ find_free_inode(disk').value # last'.num]_vars

\* ------------------------------------------------------------ the order of the transfers

\* Whether the transfers t of one call at offset are issued in the order of
\* the walk: the j-th is that of logical block offset / BLOCK_SIZE + j - 1.
WalkOrder(offset, t) ==
    \A j \in 1..Len(t) : t[j].block = (offset \div BLOCK_SIZE) + j - 1
\* Whether every transfer of t goes to the leaf zone of its logical block,
\* zs being the leaf zones of the inode.
OwnZones(zs, t) ==
    \A j \in 1..Len(t) : t[j].block < Len(zs) /\ t[j].zone = zs[t[j].block + 1]
\* The transfers of the read or write that a step records in rec, dk being
\* the device before the step.
TransfersOf(dk, rec) ==
    IF rec.op = "read"
    THEN read(dk, rec.ino, Zeros(rec.size), rec.size, rec.offset).transfers
    ELSE write(dk, rec.ino, rec.buf, rec.size, rec.offset).transfers
\* C34 for the transfers t of the call recorded in rec.
TransfersInWalkOrder(zs, rec, t) ==
    /\ WalkOrder(rec.offset, t)
    /\ \A j \in 2..Len(t) : t[j].left > 0
    /\ (rec.op = "read" \/ rec.size <= BLOCK_SIZE) => OwnZones(zs, t)

BufParams ==
    [root : 0..(2 * BLOCK_SIZE), hello : {2, BLOCK_SIZE}, big : {13 * BLOCK_SIZE},
     link : {FALSE, TRUE}, magic : {MAGIC}]
InitBuf ==
    /\ disk \in {Image(p) : p \in BufParams}
    /\ MFS_INODE_CACHE = None
    /\ last = NoOp
    /\ lastw = NoWrite
    /\ nwrites = 0
    /\ procs = NoProcs
    /\ workers = NoWorkers

\* The buffer of the directory inode n in cache_at, in
\* delete_inode_and_direntry (the root directory) and in create_new_file:
\* Buffer::new of the capacity, the read of the first block into it, and in
\* create the entry copied behind the bytes read.  last.size is the
\* capacity requested and last.ret the number of bytes stored.
DirBuffer ==
    \E op \in {"cache_at", "delete", "create"}, n \in {1, 4} :
        LET ino == get_inode(disk, n).inode
            r == read(disk, ino, Zeros(dir_buffer_capacity(ino.size)), BLOCK_SIZE, 0)
        IN  /\ last = NoOp
            /\ op = "delete" => n = 1
            /\ get_inode(disk, n).some
            /\ last' = [NoOp EXCEPT !.op = op, !.num = n, !.ino = ino,
                                    !.size = dir_buffer_capacity(ino.size),
                                    !.ret = IF op = "create"
                                            THEN r.ret + size_of_DirEntry
                                            ELSE r.ret]
            /\ UNCHANGED <<disk, MFS_INODE_CACHE, lastw, nwrites>>
            /\ UNCHANGED pvars

NextBuf == DirBuffer

SpecBuf == InitBuf /\ [][NextBuf]_vars

\* C35: for every directory size the capacity requested for the scratch
\* buffer, (size + BLOCK_SIZE - 1) & !BLOCK_SIZE, is at least the number of
\* bytes stored into it: the bytes read copies, and in create_new_file the
\* entry appended behind them.
C35_BufferHoldsDirectory ==
    last.op \in {"cache_at", "delete", "create"} => last.size >= last.ret

\* ------------------------------------------------------------ the operations that only read

\* get_inode, called on its own.
GetInodeOp ==
    \E n \in InodeNums :
        /\ last' = [NoOp EXCEPT !.op = "get_inode", !.num = n,
                                !.ino = get_inode(disk, n).inode,
                                !.err = IF get_inode(disk, n).some
                                        THEN "Some" ELSE "None"]
        /\ disk' = get_inode(disk, n).disk
        /\ UNCHANGED <<MFS_INODE_CACHE, lastw, nwrites>>
        /\ UNCHANGED pvars
\* find_free_inode, called on its own.
FindFreeOp ==
    /\ last' = [NoOp EXCEPT !.op = "find_free_inode",
                            !.ret = find_free_inode(disk).value,
                            !.err = IF find_free_inode(disk).some
                                    THEN "Some" ELSE "None"]
    /\ disk' = find_free_inode(disk).disk
    /\ UNCHANGED <<MFS_INODE_CACHE, lastw, nwrites>>
    /\ UNCHANGED pvars
\* show_fs_info.
ShowFsInfo ==
    /\ last' = [NoOp EXCEPT !.op = "show_fs_info",
                            !.err = IF show_fs_info(disk).shown
                                    THEN "shown" ELSE "silent"]
    /\ disk' = show_fs_info(disk).disk
    /\ UNCHANGED <<MFS_INODE_CACHE, lastw, nwrites>>
    /\ UNCHANGED pvars
\* show_all_file_paths, which has no call on the device; last.ret is the
\* number of paths printed.
ShowAllFilePaths ==
    /\ last' = [NoOp EXCEPT !.op = "show_all_file_paths",
                            !.ret = IF MFS_INODE_CACHE.some
                                    THEN Cardinality(DOMAIN MFS_INODE_CACHE.map)
                                    ELSE 0]
    /\ MFS_INODE_CACHE' = show_all_file_paths(MFS_INODE_CACHE)
    /\ UNCHANGED <<disk, lastw, nwrites>>
    /\ UNCHANGED pvars

\* The operations of Spec, writes among them, and the other operations that
\* only read.
NextReadOnly ==
    \/ Write \/ Read \/ Open \/ InitFs \/ Refresh
    \/ GetInodeOp \/ FindFreeOp \/ ShowFsInfo \/ ShowAllFilePaths
SpecReadOnly == Init /\ [][NextReadOnly]_vars

\* The operations that only read.
ReadOnlyOps ==
    {"get_inode", "read", "open", "find_free_inode", "init", "refresh",
     "show_fs_info", "show_all_file_paths"}
\* Ranges <<size, offset>> of the device: the super block, the inode bitmap,
\* the inode table, the root directory and the zone of a file.
BioRanges ==
    {<<SECTOR_SIZE, BLOCK_SIZE>>, <<BLOCK_SIZE, 2 * BLOCK_SIZE>>,
     <<2 * BLOCK_SIZE, 4 * BLOCK_SIZE>>, <<BLOCK_SIZE, 6 * BLOCK_SIZE>>,
     <<1, 9 * BLOCK_SIZE + 1>>}

\* C36: get_inode, read, open, find_free_inode, init, refresh, show_fs_info
\* and show_all_file_paths issue no device write: the device after each of
\* them, run before or after a write, is cell for cell the device before
\* it, and a BIO read of a range returns after it the bytes it returned
\* before it.
C36_ReadOnlyOpsKeepDevice ==
    [][last'.op \in ReadOnlyOps
       => /\ disk' = disk
          /\ \A g \in BioRanges :
                syc_read(disk', Zeros(g[1]), g[1], g[2]).buffer
                = syc_read(disk, Zeros(g[1]), g[1], g[2]).buffer]_vars
\* An operation that only reads has run on a device that a write changed.
C36_Witness ==
    /\ last.op \in ReadOnlyOps
    /\ nwrites > 0
    /\ disk \notin {Image(p) : p \in MainParams}

====
